---- MODULE Spec2Model ----
(***************************************************************************)
(* A model of the AI tutor platform's server: the tutoring-session routes  *)
(* (start, message, end) over the Session collection, the text generation  *)
(* service with its canned fallback, the avatar-video provider cascade     *)
(* with its poll loops, token issue / verification and the middleware in   *)
(* front of the message route, speech-to-text with its temporary file, the *)
(* demo talking response, the video-stream service under overlapping       *)
(* calls, and the Socket.io rooms.                                         *)
(*                                                                         *)
(* Route handlers are asynchronous: a handler runs until it awaits a store *)
(* or provider call, and other requests run in between. Each action below  *)
(* is one such run of one request, from one suspension point to the next.  *)
(***************************************************************************)
EXTENDS Integers, Sequences, FiniteSets, TLC

VARIABLES
    \* the deployment
    aiVariant,        \* which copy of AIService the server runs
    aiConfigured,     \* AIService.isConfigured (set by its constructor)
    \* the session routes
    sessions,         \* the Session collection: _id -> persisted document
    reqs,             \* the HTTP requests in flight
    now,              \* the server clock, in milliseconds
    issued,           \* the number of requests received so far
    last,             \* the response sent last: what was asked and the answer
    \* a caller of AIService.generateResponse
    aiCall,           \* the call in progress, its arguments and its result
    \* registration, login and the authenticate middleware
    jwtSecret,        \* process.env.JWT_SECRET
    authRoutes,       \* which copy of the auth routes the server runs
    users,            \* the User collection: _id -> account
    held,             \* the token each client holds, by the email it signed in with
    authDay,          \* the server clock, in days
    authLast,         \* the answer of the auth route or middleware that ran last
    routed,           \* the POST /api/session/message that went through the middleware last
    \* the avatar and video-stream services
    avVariant,        \* which copy of AvatarService the server runs
    avKeys,           \* ELEVENLABS_API_KEY, DID_API_KEY, HEYGEN_API_KEY: set or not
    demoVariant,      \* which copy of DemoVideoService the server runs
    vsVariant,        \* which copy of VideoStreamService the server runs
    call,             \* the service call in progress
    activeStreams,    \* VideoStreamService.activeStreams
    streamConfigs,    \* VideoStreamService.streamConfigs (part_001)
    streamingSessions,\* VideoStreamService.streamingSessions (videoStreamService.ts)
    streaming,        \* StreamingAvatarService: isConnected, currentSession
    \* VoiceService.speechToText and the temp directory it writes to
    voiceConfigured,  \* VoiceService.isConfigured (set by its constructor)
    tempFiles,        \* the files of the temp directory: path -> the call that wrote it
    voiceCalls,       \* the speechToText calls: where each is, and its tempFile
    voiceNow,         \* Date.now(), in milliseconds
    \* a caller of DemoVideoService.generateTalkingResponse
    talk,             \* the call made last: its arguments and the video returned
    \* overlapping calls of VideoStreamService
    streamCalls,      \* the startTutorStream / generateTalkingResponse calls
    streamLog,        \* per session id: whether a stream was started or stopped last
    disconnects,      \* whether stopStream has called disconnectStream
    \* the Socket.io server
    sockServer,       \* which copy of the server file runs
    sockConnected,    \* the sockets that are connected
    sockJoined,       \* per socket: the rooms it has joined
    sockLast          \* the event relayed last and the sockets it went to

envVars == <<aiVariant, aiConfigured>>
sessVars == <<sessions, reqs, now, issued, last>>
aiVars == <<aiCall>>
authVars == <<jwtSecret, authRoutes, users, held, authDay, authLast, routed>>
avVars == <<avVariant, avKeys, demoVariant, vsVariant, call, activeStreams,
            streamConfigs, streamingSessions, streaming>>
voiceVars == <<voiceConfigured, tempFiles, voiceCalls, voiceNow>>
talkVars == <<talk>>
streamVars == <<streamCalls, streamLog, disconnects>>
sockVars == <<sockServer, sockConnected, sockJoined, sockLast>>
vars == <<envVars, streamVars, sockVars, voiceVars, talkVars, sessVars, aiVars,
          authVars, avVars>>

-----------------------------------------------------------------------------
(* Bounds of the model *)

MaxIssued == 3      \* requests received in one behaviour, all of which may overlap
MaxTicks == 1       \* clock advances in one behaviour

TickMs == 30000     \* one clock advance: half a minute

-----------------------------------------------------------------------------
(* Values *)

Users == {"ana", "ben"}

\* req.user as authenticate leaves it: name and aiTutorName of the account
UserName(u) == IF u = "ana" THEN "Ana" ELSE "Ben"
TutorName(u) == IF u = "ana" THEN "Sam" ELSE "John"

\* a message of a session
Message(sender, content) == [sender |-> sender, content |-> content]

\* an optional field is a sequence of length 0 (absent) or 1 (set)
Absent == << >>
Some(v) == <<v>>

\* message texts, as sequences of characters
TxtHello == <<"H", "e", "l", "l", "o">>
TxtMath == <<"m", "a", "t", "h">>
TxtThis == <<"t", "h", "i", "s">>
TxtThanks == <<"t", "h", "a", "n", "k", "s">>
TxtPlain == <<"o", "k">>
TxtScience == <<"S", "c", "i", "e", "n", "c", "e">>
TxtHelpMath == <<"h", "e", "l", "p", " ", "m", "a", "t", "h">>
TxtExample == <<"e", "x", "a", "m", "p", "l", "e">>

-----------------------------------------------------------------------------
(* AIService: text generation with the canned fallback *)

\* String.prototype.toLowerCase, on the characters the texts use
ToLowerChar(c) ==
    CASE c = "A" -> "a"
      [] c = "H" -> "h"
      [] c = "J" -> "j"
      [] c = "M" -> "m"
      [] c = "S" -> "s"
      [] c = "T" -> "t"
      [] c = "Z" -> "z"
      [] OTHER -> c

ToLowerCase(s) == [i \in 1..Len(s) |-> ToLowerChar(s[i])]

\* String.prototype.includes: k occurs in s as a contiguous substring
Includes(s, k) ==
    \E i \in 0..(Len(s) - Len(k)) : SubSeq(s, i + 1, i + Len(k)) = k

KwHello == <<"h", "e", "l", "l", "o">>
KwHi == <<"h", "i">>
KwMath == <<"m", "a", "t", "h">>
KwMathematics == <<"m", "a", "t", "h", "e", "m", "a", "t", "i", "c", "s">>
KwScience == <<"s", "c", "i", "e", "n", "c", "e">>
KwThank == <<"t", "h", "a", "n", "k">>
KwHelp == <<"h", "e", "l", "p">>
KwLogisticRegression == <<"l", "o", "g", "i", "s", "t", "i", "c", " ", "r", "e", "g", "r", "e", "s", "s", "i", "o", "n">>
KwExample == <<"e", "x", "a", "m", "p", "l", "e">>

\* the reply templates, as the sequence of their literal and interpolated parts
ReplyOpening(userName, aiTutorName) ==
    <<"Hello ", userName, "! I'm ", aiTutorName, ", your AI tutor. How can I help you today?">>
ReplyGreeting(userName) ==
    <<"Hello ", userName, "! Great to see you! What would you like to learn about today?">>
ReplyMath(userName) ==
    <<"Mathematics is a fascinating subject, ", userName,
      "! What specific topic are you working on? I'd be happy to help you understand it better.">>
ReplyScience(userName) ==
    <<"Science is all about understanding the world around us, ", userName,
      "! Which branch of science are you studying?">>
ReplyThank(userName) ==
    <<"You're very welcome, ", userName,
      "! I'm here to help you succeed. Is there anything else you'd like to explore?">>
ReplyHelp(userName) ==
    <<"Of course, ", userName,
      "! I'm here to help you. Could you tell me more specifically what you're struggling with?">>
ReplyLogistic(userName) ==
    <<"Great question, ", userName,
      "! Logistic regression is a statistical method used for binary classification. (...)">>
ReplyExample(userName) ==
    <<"Here's a practical example, ", userName,
      ": Imagine you're a bank trying to predict if a customer will default on a loan. (...)">>
ReplyDefault(userName) ==
    <<"That's an interesting question, ", userName,
      "! I'd be happy to help you understand this better. Could you provide a bit more context so I can give you the most helpful response?">>
ReplyApology == <<"I apologize, but I am unable to respond at the moment.">>
\* the text of a completion OpenAI returns
ReplyOpenAI == <<"(completion returned by OpenAI)">>

\* the two copies of the service in the repository
AIVariants == {"aiService", "part_003"}

\* the constructor: isConfigured, from process.env.OPENAI_API_KEY
ApiKeys == {"unset", "placeholder", "key"}
AIIsConfigured(variant, apiKey) ==
    IF variant = "aiService"
    THEN apiKey # "unset"
    ELSE apiKey # "unset" /\ apiKey # "placeholder"

\* generateMockResponse that looks for 'help' before the other keywords
MutMockResponseHelpFirst(variant, messages, userName, aiTutorName) ==
    IF Len(messages) = 0 \/ messages[Len(messages)].sender = "ai"
    THEN ReplyOpening(userName, aiTutorName)
    ELSE LET userMessage == ToLowerCase(messages[Len(messages)].content) IN
         IF Includes(userMessage, KwHelp)
           THEN ReplyHelp(userName)
         ELSE IF Includes(userMessage, KwHello) \/ Includes(userMessage, KwHi)
           THEN ReplyGreeting(userName)
         ELSE IF Includes(userMessage, KwMath) \/ Includes(userMessage, KwMathematics)
           THEN ReplyMath(userName)
         ELSE IF Includes(userMessage, KwScience)
           THEN ReplyScience(userName)
         ELSE IF Includes(userMessage, KwThank)
           THEN ReplyThank(userName)
         ELSE IF variant = "part_003" /\ Includes(userMessage, KwLogisticRegression)
           THEN ReplyLogistic(userName)
         ELSE IF variant = "part_003" /\ Includes(userMessage, KwExample)
           THEN ReplyExample(userName)
         ELSE ReplyDefault(userName)

\* generateMockResponse: the canned reply for a message history
generateMockResponse(variant, messages, userName, aiTutorName) ==
    IF Len(messages) = 0 \/ messages[Len(messages)].sender = "ai"
    THEN ReplyOpening(userName, aiTutorName)
    ELSE LET userMessage == ToLowerCase(messages[Len(messages)].content) IN
         IF Includes(userMessage, KwHello) \/ Includes(userMessage, KwHi)
           THEN ReplyGreeting(userName)
         ELSE IF Includes(userMessage, KwMath) \/ Includes(userMessage, KwMathematics)
           THEN ReplyMath(userName)
         ELSE IF Includes(userMessage, KwScience)
           THEN ReplyScience(userName)
         ELSE IF Includes(userMessage, KwThank)
           THEN ReplyThank(userName)
         ELSE IF Includes(userMessage, KwHelp)
           THEN ReplyHelp(userName)
         ELSE IF variant = "part_003" /\ Includes(userMessage, KwLogisticRegression)
           THEN ReplyLogistic(userName)
         ELSE IF variant = "part_003" /\ Includes(userMessage, KwExample)
           THEN ReplyExample(userName)
         ELSE ReplyDefault(userName)

\* what the awaited openai.chat.completions.create can do
OpenAIOutcomes == {"reply", "empty", "error"}

\* what a call gives its caller: a returned value, or an error thrown
Returned(v) == [kind |-> "return", value |-> v]
Thrown == [kind |-> "throw", value |-> << >>]

\* generateResponse without the canned generator: an error where it is used
MutGenerateResponseNoFallback(variant, configured, outcome, messages, userName, aiTutorName) ==
    IF ~configured
    THEN Thrown
    ELSE CASE outcome = "reply" -> Returned(ReplyOpenAI)
           [] outcome = "empty" -> Returned(ReplyApology)
           [] OTHER -> Thrown

\* generateResponse whose catch block lets the OpenAI error go
MutGenerateResponseRethrows(variant, configured, outcome, messages, userName, aiTutorName) ==
    IF ~configured
    THEN Returned(generateMockResponse(variant, messages, userName, aiTutorName))
    ELSE CASE outcome = "reply" -> Returned(ReplyOpenAI)
           [] outcome = "empty" -> Returned(ReplyApology)
           [] OTHER -> Thrown

\* generateResponse, given what the OpenAI call does when it is made
generateResponse(variant, configured, outcome, messages, userName, aiTutorName) ==
    IF ~configured
    THEN Returned(generateMockResponse(variant, messages, userName, aiTutorName))
    ELSE CASE outcome = "reply" -> Returned(ReplyOpenAI)
           [] outcome = "empty" -> Returned(ReplyApology)
           [] OTHER -> Returned(generateMockResponse(variant, messages, userName,
                                                     aiTutorName))

\* the message histories a caller passes
MaxHistory == 2
AITexts ==
    {TxtHello, TxtMath, TxtThis, TxtThanks, TxtPlain, TxtScience, TxtHelpMath,
     TxtExample}
AIMessages == [sender : {"user", "ai"}, content : AITexts]
AIHistories == UNION {[1..n -> AIMessages] : n \in 0..MaxHistory}

NoResult == [kind |-> "none", value |-> << >>]

IdleAICall ==
    [pc |-> "idle", messages |-> << >>, user |-> "", outcome |-> "none",
     result |-> NoResult]

\* a caller invokes generateResponse(messages, userName, aiTutorName, ...): the
\* service answers at once when it is not configured, else it awaits OpenAI
AICallStart(messages, u) ==
    /\ aiCall.pc = "idle"
    /\ IF ~aiConfigured
       THEN LET res == generateResponse(aiVariant, aiConfigured, "none", messages,
                                        UserName(u), TutorName(u))
            IN aiCall' = [pc |-> IF res.kind = "return" THEN "returned" ELSE "thrown",
                          messages |-> messages, user |-> u, outcome |-> "none",
                          result |-> res]
       ELSE aiCall' = [IdleAICall EXCEPT !.pc = "awaiting", !.messages = messages,
                                         !.user = u]
    /\ UNCHANGED <<envVars, streamVars, sockVars, voiceVars, talkVars, sessVars, authVars, avVars>>

\* the awaited openai.chat.completions.create settles
AIOpenAIAnswers(outcome) ==
    /\ aiCall.pc = "awaiting"
    /\ LET res == generateResponse(aiVariant, aiConfigured, outcome, aiCall.messages,
                                   UserName(aiCall.user), TutorName(aiCall.user))
       IN aiCall' = [aiCall EXCEPT
                        !.pc = IF res.kind = "return" THEN "returned" ELSE "thrown",
                        !.outcome = outcome,
                        !.result = res]
    /\ UNCHANGED <<envVars, streamVars, sockVars, voiceVars, talkVars, sessVars, authVars, avVars>>

\* the caller takes the answer
AICallEnds ==
    /\ aiCall.pc \in {"returned", "thrown"}
    /\ aiCall' = IdleAICall
    /\ UNCHANGED <<envVars, streamVars, sockVars, voiceVars, talkVars, sessVars, authVars, avVars>>

-----------------------------------------------------------------------------
(* Registration, login (routes/auth) and the authenticate middleware *)

AuthRoutesVariants == {"auth.ts", "part_006"}
JwtSecrets == {"unset", "s3cret"}

MaxDays == 8            \* days the clock runs in one behaviour
ExpiresInDays == 7      \* expiresIn: '7d'

EmailAna == <<"a", "@", "x">>
EmailAnaUpper == <<"A", "@", "x">>
EmailBen == <<"b", "@", "x">>
EmailBad == <<"a", "x">>
PwSecret1 == <<"s", "e", "c", "r", "e", "t", "1">>
PwOther == <<"o", "t", "h", "e", "r", "9">>
PwShort == <<"p", "w">>

\* isEmail(), as far as the addresses used here go: an @ inside
isEmail(e) == Includes(e, <<"@">>) /\ e[1] # "@" /\ e[Len(e)] # "@"

\* normalizeEmail(): lower case
normalizeEmail(e) == ToLowerCase(e)

\* the User model hashes the password before it is stored and comparePassword
\* checks a candidate against the stored hash
HashPassword(p) == <<"hash">> \o p
comparePassword(stored, candidate) == stored = HashPassword(candidate)

\* the signing key the auth routes use
SigningSecret(variant, env) ==
    IF env # "unset" THEN env
    ELSE IF variant = "auth.ts" THEN "fallback-secret" ELSE "your-secret-key"

\* the key authenticate verifies with
VerifySecret(env) == IF env # "unset" THEN env ELSE "fallback-secret"

\* jwt.sign({ userId }, secret, { expiresIn: '7d' }) on day t
generateToken(variant, env, userId, t) ==
    [userId |-> userId, key |-> SigningSecret(variant, env), exp |-> t + ExpiresInDays]

\* jwt.verify(token, secret) on day t: the signature matches and exp is ahead
jwtVerify(token, secret, t) == token.key = secret /\ t < token.exp

\* a token nobody signed with a key of the server
ForgedToken == [userId |-> 1, key |-> "forged", exp |-> ExpiresInDays]

\* the validators of POST /register
RegisterValid(variant, body) ==
    /\ IF variant = "auth.ts" THEN Len(body.name) >= 2 /\ Len(body.name) <= 50
                               ELSE Len(body.name) > 0
    /\ isEmail(body.email)
    /\ Len(body.password) >= 6
    /\ variant = "auth.ts" => (body.language # "" /\ body.aiTutorName # "")

\* the validators of POST /login
LoginValid(body) == isEmail(body.email) /\ Len(body.password) > 0

RegisterBodies ==
    [name : {<<"A", "n", "a">>, << >>},
     email : {EmailAna, EmailAnaUpper, EmailBen, EmailBad},
     password : {PwSecret1, PwShort},
     language : {"English", ""},
     aiTutorName : {"Sam"}]

LoginBodies ==
    [email : {EmailAna, EmailAnaUpper, EmailBen, EmailBad},
     password : {PwSecret1, PwOther, << >>}]

\* User.findOne({ email })
FindUserByEmail(coll, email) == {id \in DOMAIN coll : coll[id].email = email}

\* the answer of a route, or of the middleware: 401, or 200 for next() with
\* req.user set to the account userId; header is what the request carried
NoAuthResponse ==
    [op |-> "none", code |-> 0, email |-> << >>, userId |-> 0, header |-> "none"]
AuthResponse(op, code, email, userId) ==
    [op |-> op, code |-> code, email |-> email, userId |-> userId, header |-> "none"]

\* the clients, by the normalized address they sign in with
AuthClients == {EmailAna, EmailBen}

\* what a client holds: nothing, or the token of its last register or login
NoToken == << >>
Held(token, by) == <<[token |-> token, by |-> by]>>

\* POST /api/auth/register
Register(body) ==
    LET email == normalizeEmail(body.email) IN
    /\ IF ~RegisterValid(authRoutes, body)
       THEN /\ authLast' = AuthResponse("register", 400, email, 0)
            /\ UNCHANGED <<users, held>>
       ELSE IF FindUserByEmail(users, email) # {}
       THEN /\ authLast' = AuthResponse("register", 400, email, 0)
            /\ UNCHANGED <<users, held>>
       ELSE \/ /\ users' = Append(users,
                       [name |-> body.name, email |-> email,
                        password |-> HashPassword(body.password),
                        language |-> IF body.language = "" THEN "English"
                                                          ELSE body.language,
                        aiTutorName |-> body.aiTutorName])
               /\ held' = [held EXCEPT ![email] =
                              Held(generateToken(authRoutes, jwtSecret,
                                                 Len(users) + 1, authDay), "register")]
               /\ authLast' = AuthResponse("register", 201, email, Len(users) + 1)
            \/ /\ authLast' = AuthResponse("register", 500, email, 0)
               /\ UNCHANGED <<users, held>>
    /\ UNCHANGED <<routed, jwtSecret, authRoutes, authDay, envVars, streamVars, sockVars, voiceVars, talkVars, sessVars, aiVars, avVars>>

\* POST /api/auth/login
Login(body) ==
    LET email == normalizeEmail(body.email)
        found == FindUserByEmail(users, email)
        denied == IF authRoutes = "auth.ts" THEN 401 ELSE 400
    IN
    /\ IF ~LoginValid(body)
       THEN /\ authLast' = AuthResponse("login", 400, email, 0)
            /\ UNCHANGED held
       ELSE IF found = {}
       THEN /\ authLast' = AuthResponse("login", denied, email, 0)
            /\ UNCHANGED held
       ELSE \E id \in found :
              IF ~comparePassword(users[id].password, body.password)
              THEN /\ authLast' = AuthResponse("login", denied, email, 0)
                   /\ UNCHANGED held
              ELSE /\ held' = [held EXCEPT ![email] =
                                  Held(generateToken(authRoutes, jwtSecret, id, authDay),
                                       "login")]
                   /\ authLast' = AuthResponse("login", 200, email, id)
    /\ UNCHANGED <<routed, jwtSecret, authRoutes, users, authDay, envVars, streamVars, sockVars, voiceVars, talkVars, sessVars, aiVars,
                   avVars>>

\* authenticate: a request comes with the Authorization header of a client
\* (Bearer and the token it holds), with a forged token, or with no header
Authenticate(email, header) ==
    /\ header \in {"held", "forged", "none"}
    /\ header = "held" => held[email] # NoToken
    /\ LET token == IF header = "held" THEN held[email][1].token ELSE ForgedToken
           answer(code, userId) ==
               [AuthResponse("authenticate", code, email, userId) EXCEPT
                   !.header = header]
       IN
       IF header = "none"
       THEN authLast' = answer(401, 0)
       ELSE IF ~jwtVerify(token, VerifySecret(jwtSecret), authDay)
       THEN authLast' = answer(401, 0)
       ELSE IF token.userId \notin DOMAIN users
       THEN authLast' = answer(401, 0)
       ELSE authLast' = answer(200, token.userId)
    /\ UNCHANGED <<routed, jwtSecret, authRoutes, users, held, authDay, envVars, streamVars, sockVars, voiceVars, talkVars, sessVars,
                   aiVars, avVars>>

\* what became of a POST /api/session/message on its way through authenticate
\* and the validators: the stage that answered it (or the handler it reached,
\* code 0), the status code, and the store calls made for it, in order
NoRouted ==
    [stage |-> "none", header |-> "none", message |-> << >>, sessionId |-> 0,
     code |-> 0, calls |-> << >>]
Routed(stage, header, message, sessionId, code, calls) ==
    [stage |-> stage, header |-> header, message |-> message,
     sessionId |-> sessionId, code |-> code, calls |-> calls]

\* the validators of POST /message: message and sessionId are not empty
MessageValid(message, sessionId) == message # << >> /\ sessionId # 0

\* POST /api/session/message, from its arrival to the handler's first store
\* call: authenticate runs first (and looks the user up in the store), then
\* the validators' result is checked, then the handler looks the session up
MessageRoute(email, header, message, sessionId) ==
    /\ header \in {"held", "forged", "none"}
    /\ header = "held" => held[email] # NoToken
    /\ LET token == IF header = "held" THEN held[email][1].token ELSE ForgedToken
           answer(stage, code, calls) ==
               Routed(stage, header, message, sessionId, code, calls)
       IN
       IF header = "none"
       THEN routed' = answer("authenticate", 401, << >>)
       ELSE IF ~jwtVerify(token, VerifySecret(jwtSecret), authDay)
       THEN routed' = answer("authenticate", 401, << >>)
       ELSE IF token.userId \notin DOMAIN users
       THEN routed' = answer("authenticate", 401, <<"User.findById">>)
       ELSE IF ~MessageValid(message, sessionId)
       THEN routed' = answer("validators", 400, <<"User.findById">>)
       ELSE routed' = answer("handler", 0, <<"User.findById", "Session.findOne">>)
    /\ UNCHANGED <<jwtSecret, authRoutes, users, held, authDay, authLast, envVars, streamVars, sockVars,
                   voiceVars, talkVars, sessVars, aiVars, avVars>>

\* a day passes
AuthTick ==
    /\ authDay < MaxDays
    /\ authDay' = authDay + 1
    /\ UNCHANGED <<routed, jwtSecret, authRoutes, users, held, authLast, envVars, streamVars, sockVars, voiceVars, talkVars, sessVars,
                   aiVars, avVars>>

-----------------------------------------------------------------------------
(* DemoVideoService (part_002, two copies) *)

DemoVariants == {"first", "second"}

NameJohn == <<"J", "o", "h", "n">>
NameZed == <<"Z", "e", "d">>
AvTutorNames == {NameJohn, NameZed}

KeyJohn == <<"j", "o", "h", "n">>
KeySarah == <<"s", "a", "r", "a", "h">>
KeySonia == <<"s", "o", "n", "i", "a">>
KeyMike == <<"m", "i", "k", "e">>
KeyEmma == <<"e", "m", "m", "a">>
KeyDefault == <<"d", "e", "f", "a", "u", "l", "t">>

BellUrl == "https://www.soundjay.com/misc/sounds/bell-ringing-05.wav"

DemoVideo(videoUrl, duration) ==
    [videoUrl |-> videoUrl, audioUrl |-> BellUrl, duration |-> duration]

\* initializeDemoVideos: the map from lower-case tutor names to videos
demoVideos(variant) ==
    IF variant = "first"
    THEN KeyJohn :> DemoVideo("sample-videos.com/SampleVideo_1280x720_1mb.mp4", 10)
      @@ KeySarah :> DemoVideo("sample-videos.com/SampleVideo_1280x720_2mb.mp4", 15)
      @@ KeyMike :> DemoVideo("sample-videos.com/SampleVideo_1280x720_5mb.mp4", 20)
      @@ KeyEmma :> DemoVideo("sample-videos.com/SampleVideo_1280x720_10mb.mp4", 25)
    ELSE KeyJohn :> DemoVideo("gtv-videos-bucket/sample/BigBuckBunny.mp4", 10)
      @@ KeySarah :> DemoVideo("gtv-videos-bucket/sample/ElephantsDream.mp4", 15)
      @@ KeySonia :> DemoVideo("gtv-videos-bucket/sample/ForBiggerBlazes.mp4", 12)
      @@ KeyMike :> DemoVideo("gtv-videos-bucket/sample/ForBiggerEscapes.mp4", 20)
      @@ KeyEmma :> DemoVideo("gtv-videos-bucket/sample/ForBiggerFun.mp4", 25)
      @@ KeyDefault :> DemoVideo("gtv-videos-bucket/sample/BigBuckBunny.mp4", 10)

getDemoVideo(variant, tutorName) ==
    LET normalizedName == ToLowerCase(tutorName)
        videos == demoVideos(variant)
    IN IF normalizedName \in DOMAIN videos
       THEN videos[normalizedName]
       ELSE IF variant = "first" THEN videos[KeyJohn] ELSE videos[KeyDefault]

\* Math.max and Math.min of two integers
MathMax(a, b) == IF a >= b THEN a ELSE b
MathMin(a, b) == IF a <= b THEN a ELSE b

\* the quotient rounded to the nearest integer instead of up
MutCeilAsRound(a, b) == (2 * a + b) \div (2 * b)

\* Math.ceil of a quotient of a natural number by a positive one
CeilDiv(a, b) == (a + b - 1) \div b

MinTalkSeconds == 3
MaxTalkSeconds == 30
CharsPerSecond == 10

\* generateTalkingResponse(tutorName, message), for a message of the given
\* length: the tutor's demo video with the duration estimated from the length
generateTalkingResponse(variant, tutorName, length) ==
    LET baseVideo == getDemoVideo(variant, tutorName)
        duration == MathMax(MinTalkSeconds,
                            MathMin(MaxTalkSeconds, CeilDiv(length, CharsPerSecond)))
    IN [videoUrl |-> baseVideo.videoUrl, audioUrl |-> baseVideo.audioUrl,
        duration |-> duration, isLive |-> TRUE]

MaxMessageLength == 320     \* the longest message a caller passes

NoTalk ==
    [called |-> FALSE, tutorName |-> << >>, length |-> 0,
     video |-> [videoUrl |-> "", audioUrl |-> "", duration |-> 0, isLive |-> FALSE]]

\* a caller invokes generateTalkingResponse with a message of some length
TalkCall(tutorName, length) ==
    /\ talk' = [called |-> TRUE, tutorName |-> tutorName, length |-> length,
                video |-> generateTalkingResponse(demoVariant, tutorName, length)]
    /\ UNCHANGED <<envVars, streamVars, sockVars, voiceVars, sessVars, aiVars, authVars, avVars>>

-----------------------------------------------------------------------------
(* AvatarService (avatarService.ts, two copies): speech, then the video from *)
(* the providers in turn, each polled until its video is ready               *)

AvVariants == {"first", "second"}

\* the constructor: isConfigured
AvIsConfigured(keys) == keys.elevenLabs /\ (keys.did \/ keys.heygen)

\* getServiceStatus().status
AvServiceStatus(keys) == IF AvIsConfigured(keys) THEN "active" ELSE "limited"

\* generateSpeech: the same placeholder whatever ElevenLabs answers
generateSpeech(keys, outcome) == BellUrl

\* the order in which generateAvatarVideo tries the providers
ProviderOrder(variant) ==
    IF variant = "first" THEN <<"did", "heygen">> ELSE <<"heygen", "did">>

HasKey(keys, provider) == IF provider = "did" THEN keys.did ELSE keys.heygen

IndexOf(order, provider) == CHOOSE i \in DOMAIN order : order[i] = provider

\* generateAvatarVideo that gives up on the providers after the first failure
MutNoSecondProvider(variant, keys, after) ==
    LET order == ProviderOrder(variant)
        later == {i \in DOMAIN order : i > after /\ HasKey(keys, order[i])}
    IN IF later = {} \/ after > 0
       THEN "demo"
       ELSE order[CHOOSE i \in later : \A j \in later : i <= j]

\* generateAvatarVideo that starts with the last provider of the order
MutLastProviderFirst(variant, keys, after) ==
    LET order == ProviderOrder(variant)
        later == {i \in DOMAIN order : i > after /\ HasKey(keys, order[i])}
    IN IF later = {}
       THEN "demo"
       ELSE order[CHOOSE i \in later : \A j \in later : i >= j]

\* generateAvatarVideo: the provider tried after the one at position after of
\* the order threw (after = 0 at the start): the next one whose key is set,
\* and the demo video when there is none
NextProvider(variant, keys, after) ==
    LET order == ProviderOrder(variant)
        later == {i \in DOMAIN order : i > after /\ HasKey(keys, order[i])}
    IN IF later = {}
       THEN "demo"
       ELSE order[CHOOSE i \in later : \A j \in later : i <= j]

\* whether the provider function lets its errors out to generateAvatarVideo
\* or catches them and returns the demo video itself
ProviderCatch(variant, provider) ==
    IF variant = "second" /\ provider = "did" THEN "demo" ELSE "rethrow"

DIDMaxAttempts == 30
HeyGenMaxAttempts == 60
DIDMaxAttemptsSecond == 30
HeyGenMaxAttemptsSecond == 30

maxAttempts(variant, provider) ==
    IF variant = "first"
    THEN IF provider = "did" THEN DIDMaxAttempts ELSE HeyGenMaxAttempts
    ELSE IF provider = "did" THEN DIDMaxAttemptsSecond ELSE HeyGenMaxAttemptsSecond

DIDVideoUrl == "d-id:result_url"
HeyGenVideoUrl == "heygen:video_url"
ReportedUrl(provider) == IF provider = "did" THEN DIDVideoUrl ELSE HeyGenVideoUrl

ErrTimedOut == "Video generation timed out"
ErrNotFound == "Video ID not found or invalid"
ErrDIDTimeout == "D-ID video generation timeout"
ErrDIDFailed == "D-ID video generation failed"
ErrNoId == "No id received"
ErrRequest == "Request failed"

\* what the creation request (POST) of a provider can do
PostResponses == {"error", "no_id", "id"}

\* what a status request can do: fail (not_found: with HTTP status 404), or
\* answer a status: in progress, ready with or without the video url, failed;
\* bad_code: an answer of HeyGen whose code is not 100
PollResponses ==
    {"request_error", "not_found", "pending", "done_url", "done_nourl", "failed",
     "bad_code"}

\* the provider reported the end of the generation
IsTerminal(resp) == resp \in {"done_url", "done_nourl", "failed"}

PollResult(next, attempts, url, err) ==
    [next |-> next, attempts |-> attempts, url |-> url, err |-> err]

\* the error raised once the loop has used its attempts up
TimeoutError(variant, provider) ==
    IF variant = "second" /\ provider = "did" THEN ErrDIDTimeout ELSE ErrTimedOut

\* an iteration that leaves the attempt counter as it is
MutPollAgainUncounted(variant, provider, attempts) ==
    PollResult("poll", attempts, Absent, "")

\* attempts++ and the loop condition: another iteration, or the loop ends and
\* the timeout is thrown
PollAgain(variant, provider, attempts) ==
    IF attempts + 1 < maxAttempts(variant, provider)
    THEN PollResult("poll", attempts + 1, Absent, "")
    ELSE PollResult("throw", attempts + 1, Absent, TimeoutError(variant, provider))

\* one iteration of the poll loop of a provider, on the answer resp of the
\* status request: poll again, return the url, or throw
PollStep(variant, provider, resp, attempts) ==
    LET again == PollAgain(variant, provider, attempts)
        return(url) == PollResult("return", attempts, url, "")
        throw(err) == PollResult("throw", attempts, Absent, err)
    IN IF variant = "first" /\ provider = "did"
         THEN CASE resp = "done_url" -> return(Some(DIDVideoUrl))
                [] resp = "done_nourl" -> throw(ErrTimedOut)
                [] OTHER -> again
       ELSE IF variant = "first" /\ provider = "heygen"
         THEN CASE resp = "done_url" -> return(Some(HeyGenVideoUrl))
                [] resp = "not_found" -> throw(ErrNotFound)
                [] OTHER -> again
       ELSE IF variant = "second" /\ provider = "heygen"
         THEN CASE resp = "done_url" -> return(Some(HeyGenVideoUrl))
                [] resp = "done_nourl" -> throw(ErrTimedOut)
                [] OTHER -> again
       ELSE CASE resp = "done_url" -> return(Some(DIDVideoUrl))
              [] resp = "done_nourl" -> return(Absent)
              [] resp = "failed" -> throw(ErrDIDFailed)
              [] resp \in {"request_error", "not_found"} -> throw(ErrRequest)
              [] OTHER -> again

-----------------------------------------------------------------------------
(* Calls of AvatarService.generateTalkingAvatar and of                       *)
(* VideoStreamService.startTutorStream (part_001 and videoStreamService.ts)  *)

VSVariants == {"part_001", "videoStreamService"}
AvEntries == {"generateTalkingAvatar", "startTutorStream"}
StreamIds == {"s1"}
AvKeySets == [elevenLabs : BOOLEAN, did : BOOLEAN, heygen : BOOLEAN]

\* a streaming service that always reports an active stream
MutStreamAlwaysActive(str) == TRUE

\* StreamingAvatarService.isStreamActive
isStreamActive(str) == str.isConnected /\ str.sessionActive

NoStreaming == [isConnected |-> FALSE, sessionActive |-> FALSE]

\* what an entry point gives its caller
AvResult(kind, videoUrl, audioUrl, live) ==
    [kind |-> kind, videoUrl |-> videoUrl, audioUrl |-> audioUrl, live |-> live]

NoAvResult == AvResult("none", Absent, Absent, FALSE)

\* the end of one provider attempt, as generateAvatarVideo sees it: the
\* function returned url (ok) or threw; err is the error raised inside it, ""
\* if none was; polled: the poll loop was entered; sawTerminal: the provider
\* reported an end state in it
Attempt(provider, ok, url, err, polled, sawTerminal) ==
    [provider |-> provider, ok |-> ok, url |-> url, err |-> err,
     polled |-> polled, sawTerminal |-> sawTerminal]

\* text: the user message, kept where the call passes it on to AIService
IdleCall ==
    [pc |-> "idle", entry |-> "none", tutor |-> << >>, text |-> << >>, sid |-> "",
     provider |-> "none", attempts |-> 0, sawTerminal |-> FALSE,
     audioUrl |-> Absent, tried |-> << >>, source |-> "none",
     realTime |-> FALSE, inCatch |-> FALSE, result |-> NoAvResult]

\* the stream a VideoStreamService stores for a session
Stream(videoUrl, audioUrl, live) ==
    [videoUrl |-> videoUrl, audioUrl |-> audioUrl, live |-> live]

\* the entry point of call c returns: generateTalkingAvatar gives the two
\* urls; startTutorStream of part_001 wraps them in a stream response and
\* stores it in activeStreams
AvReturns(c, videoUrl, audioUrl, source) ==
    /\ call' = [c EXCEPT !.pc = "returned", !.source = source,
                         !.result = AvResult("return", videoUrl, audioUrl, TRUE)]
    /\ IF c.entry = "startTutorStream"
       THEN activeStreams' = [activeStreams EXCEPT ![c.sid] =
                                 Some(Stream(videoUrl, audioUrl, TRUE))]
       ELSE UNCHANGED activeStreams

\* generateAvatarVideo goes on after the provider at position after: the next
\* provider's creation request is sent, or the demo video is returned
AvTryNext(c, after) ==
    LET provider == NextProvider(avVariant, avKeys, after) IN
    IF provider = "demo"
    THEN AvReturns(c, Some(getDemoVideo(demoVariant, c.tutor).videoUrl), c.audioUrl,
                   "demo")
    ELSE /\ call' = [c EXCEPT !.pc = "post", !.provider = provider]
         /\ UNCHANGED activeStreams

\* the attempt of the current provider ends with the error err
AvAttemptFails(c, err, polled) ==
    IF ProviderCatch(avVariant, c.provider) = "demo"
    THEN LET url == Some(getDemoVideo(demoVariant, c.tutor).videoUrl) IN
         AvReturns([c EXCEPT !.tried = Append(@,
                        Attempt(c.provider, TRUE, url, err, polled, c.sawTerminal))],
                   url, c.audioUrl, c.provider)
    ELSE AvTryNext([c EXCEPT !.tried = Append(@,
                        Attempt(c.provider, FALSE, Absent, err, polled, c.sawTerminal))],
                   IndexOf(ProviderOrder(avVariant), c.provider))

\* a caller invokes an entry point
AvStart(entry, tutor, sid, text) ==
    /\ call.pc = "idle"
    /\ LET c == [IdleCall EXCEPT !.entry = entry, !.tutor = tutor, !.sid = sid]
           demoTalking == getDemoVideo(demoVariant, tutor)
       IN
       IF entry = "generateTalkingAvatar"
       THEN /\ IF AvIsConfigured(avKeys)
               THEN /\ call' = [c EXCEPT !.pc = "speech"]
                    /\ UNCHANGED activeStreams
               ELSE AvReturns(c, Some(demoTalking.videoUrl), Some(demoTalking.audioUrl),
                              "unconfigured")
            /\ UNCHANGED streamConfigs
       ELSE IF vsVariant = "part_001"
       THEN /\ streamConfigs' = [streamConfigs EXCEPT ![sid] = Some(tutor)]
            /\ IF AvServiceStatus(avKeys) = "active"
               THEN /\ call' = [c EXCEPT !.pc = "speech"]
                    /\ UNCHANGED activeStreams
               ELSE AvReturns(c, Some(demoTalking.videoUrl), Some(demoTalking.audioUrl),
                              "unconfigured")
       ELSE /\ call' = [c EXCEPT !.pc = "ai", !.text = text,
                                  !.realTime = isStreamActive(streaming)]
            /\ UNCHANGED <<activeStreams, streamConfigs>>
    /\ UNCHANGED <<avVariant, avKeys, demoVariant, vsVariant, streamingSessions,
                   streaming, envVars, streamVars, sockVars, voiceVars, talkVars, sessVars, aiVars, authVars>>

\* generateSpeech: the ElevenLabs request settles (isConfigured implies that
\* its key is set); generateAvatarVideo starts with the first provider
AvSpeech(outcome) ==
    /\ call.pc = "speech"
    /\ AvTryNext([call EXCEPT !.audioUrl = Some(generateSpeech(avKeys, outcome))], 0)
    /\ UNCHANGED <<avVariant, avKeys, demoVariant, vsVariant, streamConfigs,
                   streamingSessions, streaming, envVars, streamVars, sockVars, voiceVars, talkVars, sessVars, aiVars, authVars>>

\* the creation request of the current provider settles: with an id the poll
\* loop starts, else the attempt fails
AvPost(resp) ==
    /\ call.pc = "post"
    /\ IF resp = "id"
       THEN /\ call' = [call EXCEPT !.pc = "poll", !.attempts = 0,
                                    !.sawTerminal = FALSE]
            /\ UNCHANGED activeStreams
       ELSE AvAttemptFails([call EXCEPT !.attempts = 0, !.sawTerminal = FALSE],
                           IF resp = "no_id" THEN ErrNoId ELSE ErrRequest, FALSE)
    /\ UNCHANGED <<avVariant, avKeys, demoVariant, vsVariant, streamConfigs,
                   streamingSessions, streaming, envVars, streamVars, sockVars, voiceVars, talkVars, sessVars, aiVars, authVars>>

\* one iteration of the poll loop: the status request settles
AvPoll(resp) ==
    /\ call.pc = "poll"
    /\ LET step == PollStep(avVariant, call.provider, resp, call.attempts)
           c == [call EXCEPT !.attempts = step.attempts,
                             !.sawTerminal = @ \/ IsTerminal(resp)]
       IN CASE step.next = "poll" ->
                 /\ call' = c
                 /\ UNCHANGED activeStreams
            [] step.next = "return" ->
                 AvReturns([c EXCEPT !.tried = Append(@,
                               Attempt(c.provider, TRUE, step.url, "", TRUE,
                                       c.sawTerminal))],
                           step.url, c.audioUrl, c.provider)
            [] OTHER -> AvAttemptFails(c, step.err, TRUE)
    /\ UNCHANGED <<avVariant, avKeys, demoVariant, vsVariant, streamConfigs,
                   streamingSessions, streaming, envVars, streamVars, sockVars, voiceVars, talkVars, sessVars, aiVars, authVars>>

\* startTutorStream of videoStreamService.ts: aiService.generateResponse
\* settles in startRealTimeStream or startDemoStream; an error thrown there is
\* caught by startTutorStream, which calls startDemoStream once more
AvAI(outcome) ==
    /\ call.pc = "ai"
    /\ LET res == generateResponse(aiVariant, aiConfigured, outcome,
                                   <<Message("user", call.text)>>, "User", call.tutor)
           demoVideo == getDemoVideo(demoVariant, call.tutor)
       IN
       IF res.kind # "return"
       THEN /\ IF call.inCatch
               THEN call' = [call EXCEPT !.pc = "thrown",
                                !.result = AvResult("throw", Absent, Absent, FALSE)]
               ELSE call' = [call EXCEPT !.inCatch = TRUE, !.realTime = FALSE]
            /\ UNCHANGED <<activeStreams, streamingSessions, streaming>>
       ELSE IF call.realTime
       THEN /\ streaming' = [isConnected |-> TRUE, sessionActive |-> TRUE]
            /\ streamingSessions' = [streamingSessions EXCEPT ![call.sid] =
                                        Some("stream_id")]
            /\ activeStreams' = [activeStreams EXCEPT ![call.sid] =
                    Some(Stream(Some("streaming://stream_id"),
                                Some("streaming://stream_id"), TRUE))]
            /\ call' = [call EXCEPT !.pc = "returned", !.source = "streaming",
                          !.result = AvResult("return", Some("streaming://stream_id"),
                                              Some("streaming://stream_id"), TRUE)]
       ELSE /\ activeStreams' = [activeStreams EXCEPT ![call.sid] =
                    Some(Stream(Some(demoVideo.videoUrl), Some(demoVideo.audioUrl),
                                FALSE))]
            /\ call' = [call EXCEPT !.pc = "returned", !.source = "demoStream",
                          !.result = AvResult("return", Some(demoVideo.videoUrl),
                                              Some(demoVideo.audioUrl), FALSE)]
            /\ UNCHANGED <<streamingSessions, streaming>>
    /\ UNCHANGED <<avVariant, avKeys, demoVariant, vsVariant, streamConfigs,
                   envVars, streamVars, sockVars, voiceVars, talkVars, sessVars, aiVars, authVars>>

\* the caller takes the answer
AvDone ==
    /\ call.pc \in {"returned", "thrown"}
    /\ call' = IdleCall
    /\ UNCHANGED <<avVariant, avKeys, demoVariant, vsVariant, activeStreams,
                   streamConfigs, streamingSessions, streaming, envVars, streamVars, sockVars, voiceVars, talkVars, sessVars,
                   aiVars, authVars>>

-----------------------------------------------------------------------------
(* VoiceService.speechToText (voiceService.ts) and the temp directory *)

MaxVoiceCalls == 3      \* speechToText calls in one behaviour, which may overlap
MaxVoiceTicks == 2      \* milliseconds the clock advances in one behaviour

VoiceCallIds == 1..MaxVoiceCalls

ErrNotConfigured == "OpenAI API not configured"
ErrSpeechToText == "Failed to convert speech to text"

\* a call: where it is, the path it wrote its audio to (the Date.now() of the
\* path stands for the path), and what it gave its caller
IdleVoiceCall == [pc |-> "idle", tempFile |-> Absent, result |-> NoResult]

VoiceThrown(err) == [kind |-> "throw", value |-> err]

\* what the synchronous fs.mkdirSync / fs.writeFileSync can do
WriteOutcomes == {"written", "error"}

\* what the awaited openai.audio.transcriptions.create can do
WhisperOutcomes == {"text", "error"}

\* speechToText(audioBuffer, language) is called: it throws when the service
\* is not configured; else it writes the audio to temp/audio_<now>.webm, over
\* a file of that name if there is one, and awaits the transcription; an
\* error of the file system goes to the catch block
SpeechToTextStart(c, written) ==
    /\ voiceCalls[c].pc = "idle"
    /\ \A d \in VoiceCallIds : d < c => voiceCalls[d].pc # "idle"
    /\ IF ~voiceConfigured
       THEN /\ voiceCalls' = [voiceCalls EXCEPT
                                 ![c].pc = "thrown",
                                 ![c].result = VoiceThrown(ErrNotConfigured)]
            /\ UNCHANGED tempFiles
       ELSE IF written = "error"
       THEN /\ voiceCalls' = [voiceCalls EXCEPT
                                 ![c].pc = "thrown",
                                 ![c].result = VoiceThrown(ErrSpeechToText)]
            /\ UNCHANGED tempFiles
       ELSE /\ tempFiles' = [f \in DOMAIN tempFiles \cup {voiceNow} |->
                                IF f = voiceNow THEN c ELSE tempFiles[f]]
            /\ voiceCalls' = [voiceCalls EXCEPT
                                 ![c].pc = "transcribing",
                                 ![c].tempFile = Some(voiceNow)]
    /\ UNCHANGED <<voiceConfigured, voiceNow, envVars, streamVars, sockVars, talkVars, sessVars, aiVars,
                   authVars, avVars>>

\* the transcription settles: on success fs.unlinkSync(tempFile) removes the
\* file and the text is returned, and an unlink of a file that is gone throws;
\* on failure the catch block logs and throws, and the file is left
SpeechToTextSettles(c, outcome) ==
    /\ voiceCalls[c].pc = "transcribing"
    /\ LET tempFile == voiceCalls[c].tempFile[1] IN
       IF outcome = "error"
       THEN /\ voiceCalls' = [voiceCalls EXCEPT
                                 ![c].pc = "thrown",
                                 ![c].result = VoiceThrown(ErrSpeechToText)]
            /\ UNCHANGED tempFiles
       ELSE IF tempFile \notin DOMAIN tempFiles
       THEN /\ voiceCalls' = [voiceCalls EXCEPT
                                 ![c].pc = "thrown",
                                 ![c].result = VoiceThrown(ErrSpeechToText)]
            /\ UNCHANGED tempFiles
       ELSE /\ tempFiles' = [f \in DOMAIN tempFiles \ {tempFile} |-> tempFiles[f]]
            /\ voiceCalls' = [voiceCalls EXCEPT
                                 ![c].pc = "returned",
                                 ![c].result = Returned("transcription")]
    /\ UNCHANGED <<voiceConfigured, voiceNow, envVars, streamVars, sockVars, talkVars, sessVars, aiVars,
                   authVars, avVars>>

\* a millisecond passes
VoiceTick ==
    /\ voiceNow < MaxVoiceTicks
    /\ voiceNow' = voiceNow + 1
    /\ UNCHANGED <<voiceConfigured, tempFiles, voiceCalls, envVars, streamVars, sockVars, talkVars,
                   sessVars, aiVars, authVars, avVars>>

-----------------------------------------------------------------------------
(* The Session model (models/Session.ts) and the store *)

MsPerMinute == 60000

\* a document whose status does not start as 'active'
MutNewSessionEnded(userId, subject, t) ==
    [userId |-> userId,
     subject |-> subject,
     messages |-> << >>,
     status |-> "ended",
     startTime |-> t,
     endTime |-> Absent,
     totalDuration |-> Absent]

\* new Session({...}): the schema defaults fill status and startTime
NewSession(userId, subject, t) ==
    [userId |-> userId,
     subject |-> subject,
     messages |-> << >>,
     status |-> "active",
     startTime |-> t,
     endTime |-> Absent,
     totalDuration |-> Absent]

\* the value of a request's document variable before a document is loaded
NoDoc == NewSession("", "", 0)

\* the quotient cut off instead of rounded
MutFloorDiv(a, b) == a \div b

\* Math.round of a quotient of integers: halves round up
RoundDiv(a, b) == (2 * a + b) \div (2 * b)

\* a pre-save hook that computes nothing
MutPreSaveSkipped(doc, modified) == doc

\* sessionSchema.pre('save'): the duration is computed when the status was
\* modified to 'ended' and an end time is set
PreSave(doc, modified) ==
    IF "status" \in modified /\ doc.status = "ended" /\ doc.endTime # Absent
    THEN [doc EXCEPT !.totalDuration =
              Some(RoundDiv(doc.endTime[1] - doc.startTime, MsPerMinute))]
    ELSE doc

\* the query filtering on another status than 'active'
MutFindPausedByUser(coll, userId) ==
    {id \in DOMAIN coll : coll[id].userId = userId /\ coll[id].status = "paused"}

\* the query without its status filter
MutFindAnyByUser(coll, userId) ==
    {id \in DOMAIN coll : coll[id].userId = userId}

\* Session.findOne({ userId, status: 'active' }): the documents that match
FindActiveByUser(coll, userId) ==
    {id \in DOMAIN coll : coll[id].userId = userId /\ coll[id].status = "active"}

\* the query by _id without its userId filter
MutFindActiveByIdAnyUser(coll, sessionId, userId) ==
    {id \in DOMAIN coll : id = sessionId /\ coll[id].status = "active"}

\* Session.findOne({ _id, userId, status: 'active' }): the documents that match
FindActiveById(coll, sessionId, userId) ==
    {id \in DOMAIN coll : id = sessionId /\ coll[id].userId = userId
                          /\ coll[id].status = "active"}

\* a save that writes the whole loaded copy over the stored document
MutSaveWholeDocument(coll, id, doc, pushed) ==
    [coll EXCEPT ![id] = doc]

\* a save that sends the first pushed element only
MutSaveFirstPushed(coll, id, doc, pushed) ==
    [coll EXCEPT ![id].messages = coll[id].messages \o SubSeq(pushed, 1, 1)]

\* a save that writes the whole array of the loaded copy over the stored one
MutSaveWholeArray(coll, id, doc, pushed) ==
    [coll EXCEPT ![id].messages = doc.messages]

\* session.save() of a document doc that was loaded and then had messages
\* pushed: Mongoose sends the pushed elements ($push), which the store appends
\* to the array it holds; the other paths of doc are unmodified and not sent
SavePushed(coll, id, doc, pushed) ==
    [coll EXCEPT ![id].messages = coll[id].messages \o pushed]

\* session.save() of a loaded document whose status and endTime were set:
\* the modified paths, and the duration the pre-save hook computed, are sent
\* ($set) and written over the stored ones
SaveEnded(coll, id, doc, modified) ==
    LET d == PreSave(doc, modified) IN
    [coll EXCEPT ![id].status = d.status,
                 ![id].endTime = d.endTime,
                 ![id].totalDuration = d.totalDuration]

-----------------------------------------------------------------------------
(* The session routes *)

Reqs == 1..MaxIssued            \* the r-th request received is request r
Subjects == {"", "Math"}        \* req.body.subject; "" when it is not sent
Texts == {TxtHello, TxtPlain}

IdleReq ==
    [op |-> "none", pc |-> "idle", user |-> "", sid |-> 0,
     doc |-> NoDoc, docId |-> 0, pushed |-> << >>, modified |-> {}]

\* the next request to arrive is request r
Arrives(r) == reqs[r].pc = "idle" /\ r = issued + 1

NoResponse == [op |-> "none", user |-> "", sid |-> 0, docId |-> 0, resp |-> 0]

Response(op, user, sid, docId, code) ==
    [op |-> op, user |-> user, sid |-> sid, docId |-> docId, resp |-> code]

\* res.status(code).json(...) of a request that was suspended: the handler
\* returns, its locals are dropped, and the answer is recorded in last
Respond(r, code) ==
    /\ reqs' = [reqs EXCEPT ![r] = [IdleReq EXCEPT !.pc = "done"]]
    /\ last' = Response(reqs[r].op, reqs[r].user, reqs[r].sid, reqs[r].docId, code)

\* Date.now() at a step: the clock has not gone back since it was read last
Clock(t) == t \in {now, now + TickMs} /\ t <= MaxTicks * TickMs

\* POST /api/session/start: the request arrives and the active-session lookup
\* answers; a new document is built if none is found
StartFind(r, u, subject) ==
    /\ Arrives(r)
    /\ issued' = issued + 1
    /\ IF FindActiveByUser(sessions, u) # {}
       THEN /\ reqs' = [reqs EXCEPT ![r] = [IdleReq EXCEPT !.pc = "done"]]
            /\ last' = Response("start", u, 0, 0, 400)
            /\ UNCHANGED now
       ELSE \E t \in {now, now + TickMs} :
              /\ Clock(t)
              /\ now' = t
              /\ reqs' = [reqs EXCEPT ![r] =
                    [IdleReq EXCEPT
                        !.op = "start", !.pc = "start_insert", !.user = u,
                        !.doc = NewSession(u, IF subject = "" THEN "General Tutoring"
                                                              ELSE subject, t)]]
              /\ UNCHANGED last
    /\ UNCHANGED <<sessions, envVars, streamVars, sockVars, voiceVars, talkVars, aiVars, authVars, avVars>>

\* the first session.save() inserts the document, or the store fails; after
\* the insert aiService.generateResponse([], ...) answers and the greeting is
\* pushed on the document
StartInsert(r) ==
    /\ reqs[r].pc = "start_insert"
    /\ \/ \E outcome \in OpenAIOutcomes :
            LET res == generateResponse(aiVariant, aiConfigured, outcome, << >>,
                                        UserName(reqs[r].user), TutorName(reqs[r].user))
            IN /\ sessions' = Append(sessions, reqs[r].doc)
               /\ IF res.kind = "return"
                  THEN /\ reqs' = [reqs EXCEPT
                              ![r].pc = "start_save",
                              ![r].docId = Len(sessions) + 1,
                              ![r].doc.messages = Append(@, Message("ai", res.value)),
                              ![r].pushed = Append(@, Message("ai", res.value))]
                       /\ UNCHANGED last
                  ELSE Respond(r, 500)
       \/ /\ Respond(r, 500)
          /\ UNCHANGED sessions
    /\ UNCHANGED <<now, issued, envVars, streamVars, sockVars, voiceVars, talkVars, aiVars, authVars, avVars>>

\* the second session.save(): the greeting is persisted, or the store fails
StartSave(r) ==
    /\ reqs[r].pc = "start_save"
    /\ \/ /\ sessions' = SavePushed(sessions, reqs[r].docId, reqs[r].doc, reqs[r].pushed)
          /\ Respond(r, 201)
       \/ /\ Respond(r, 500)
          /\ UNCHANGED sessions
    /\ UNCHANGED <<now, issued, envVars, streamVars, sockVars, voiceVars, talkVars, aiVars, authVars, avVars>>

\* POST /api/session/message: the request arrives; the validators reject an
\* empty message or session id; else the session lookup answers, the user
\* message is pushed on the loaded copy, aiService.generateResponse answers
\* and the reply is pushed
MsgFind(r, u, sid, text) ==
    /\ Arrives(r)
    /\ issued' = issued + 1
    /\ IF text = << >> \/ sid = 0
       THEN /\ reqs' = [reqs EXCEPT ![r] = [IdleReq EXCEPT !.pc = "done"]]
            /\ last' = Response("message", u, sid, 0, 400)
       ELSE LET found == FindActiveById(sessions, sid, u) IN
            IF found = {}
            THEN /\ reqs' = [reqs EXCEPT ![r] = [IdleReq EXCEPT !.pc = "done"]]
                 /\ last' = Response("message", u, sid, 0, 404)
            ELSE \E id \in found, outcome \in OpenAIOutcomes :
                   LET userMessage == Message("user", text)
                       history == Append(sessions[id].messages, userMessage)
                       res == generateResponse(aiVariant, aiConfigured, outcome,
                                               history, UserName(u), TutorName(u))
                   IN IF res.kind = "return"
                      THEN /\ reqs' = [reqs EXCEPT ![r] =
                                 [IdleReq EXCEPT
                                     !.op = "message", !.pc = "msg_save",
                                     !.user = u, !.sid = sid, !.docId = id,
                                     !.doc = [sessions[id] EXCEPT !.messages =
                                               Append(history, Message("ai", res.value))],
                                     !.pushed = <<userMessage, Message("ai", res.value)>>]]
                           /\ UNCHANGED last
                      ELSE /\ reqs' = [reqs EXCEPT ![r] = [IdleReq EXCEPT !.pc = "done"]]
                           /\ last' = Response("message", u, sid, id, 500)
    /\ UNCHANGED <<sessions, now, envVars, streamVars, sockVars, voiceVars, talkVars, aiVars, authVars, avVars>>

\* session.save(): both messages are persisted in one write, or the store fails
MsgSave(r) ==
    /\ reqs[r].pc = "msg_save"
    /\ \/ /\ sessions' = SavePushed(sessions, reqs[r].docId, reqs[r].doc, reqs[r].pushed)
          /\ Respond(r, 200)
       \/ /\ Respond(r, 500)
          /\ UNCHANGED sessions
    /\ UNCHANGED <<now, issued, envVars, streamVars, sockVars, voiceVars, talkVars, aiVars, authVars, avVars>>

\* PUT /api/session/end: the request arrives and the active-session lookup
\* answers; status and endTime are set on the loaded copy
EndFind(r, u) ==
    /\ Arrives(r)
    /\ issued' = issued + 1
    /\ LET found == FindActiveByUser(sessions, u) IN
       IF found = {}
       THEN /\ reqs' = [reqs EXCEPT ![r] = [IdleReq EXCEPT !.pc = "done"]]
            /\ last' = Response("end", u, 0, 0, 404)
            /\ UNCHANGED now
       ELSE \E id \in found, t \in {now, now + TickMs} :
              /\ Clock(t)
              /\ now' = t
              /\ reqs' = [reqs EXCEPT ![r] =
                    [IdleReq EXCEPT
                        !.op = "end", !.pc = "end_save", !.user = u, !.docId = id,
                        !.doc = [sessions[id] EXCEPT !.status = "ended",
                                                     !.endTime = Some(t)],
                        !.modified = {"status", "endTime"}]]
              /\ UNCHANGED last
    /\ UNCHANGED <<sessions, envVars, streamVars, sockVars, voiceVars, talkVars, aiVars, authVars, avVars>>

\* session.save(): the ended session is persisted, or the store fails
EndSave(r) ==
    /\ reqs[r].pc = "end_save"
    /\ \/ /\ sessions' = SaveEnded(sessions, reqs[r].docId, reqs[r].doc,
                                   reqs[r].modified)
          /\ Respond(r, 200)
       \/ /\ Respond(r, 500)
          /\ UNCHANGED sessions
    /\ UNCHANGED <<now, issued, envVars, streamVars, sockVars, voiceVars, talkVars, aiVars, authVars, avVars>>

-----------------------------------------------------------------------------
(* VideoStreamService under overlapping requests: startTutorStream,          *)
(* generateTalkingResponse and stopStream (part_001, videoStreamService.ts). *)
(* A call is suspended only where it awaits a provider: AvatarService with   *)
(* its keys set (part_001), OpenAI with its key set (videoStreamService.ts)  *)

MaxStreamCalls == 3     \* startTutorStream / generateTalkingResponse calls in one behaviour

StreamCallIds == 1..MaxStreamCalls

ErrTalkingResponse == "Failed to generate talking response"
ErrNotConnected == "Stream not connected"

\* the id createStreamingSession returns, and the urls made from an id
StreamingSessionId == "stream_id"
StreamingUrl(id) ==
    IF id = StreamingSessionId THEN "streaming://stream_id" ELSE "streaming://undefined"

\* streamingSession.isActive, read from an entry of streamingSessions: what
\* startRealTimeStream stores there is the id, a string, which has no such
\* property
HandleIsActive(handle) == FALSE

\* what the awaited avatarService.generateTalkingAvatar gives: the video of
\* the provider that made it, or the demo video (it catches its own errors)
AvatarOutcomes == {"did", "heygen", "demo"}

AvatarVideoUrl(outcome, tutor) ==
    IF outcome = "demo"
    THEN getDemoVideo(demoVariant, tutor).videoUrl
    ELSE ReportedUrl(outcome)

\* what a VideoStreamService call gives its caller
StreamResult(kind, videoUrl, live, err) ==
    [kind |-> kind, videoUrl |-> videoUrl, live |-> live, err |-> err]

\* begun: at the time of the call a startTutorStream for the session id had
\* begun and no stopStream for it had run since
IdleStreamCall ==
    [pc |-> "idle", op |-> "none", sid |-> "", tutor |-> << >>, text |-> << >>,
     realTime |-> FALSE, inCatch |-> FALSE, begun |-> FALSE,
     result |-> StreamResult("none", "", FALSE, "")]

\* the call c, whose record is rec, returns the stream; the locals are dropped
StreamCallReturns(c, rec, videoUrl, live) ==
    streamCalls' = [streamCalls EXCEPT ![c] =
        [rec EXCEPT !.pc = "returned", !.tutor = << >>, !.text = << >>,
                    !.realTime = FALSE, !.inCatch = FALSE,
                    !.result = StreamResult("return", videoUrl, live, "")]]

StreamCallThrows(c, rec, err) ==
    streamCalls' = [streamCalls EXCEPT ![c] =
        [rec EXCEPT !.pc = "thrown", !.tutor = << >>, !.text = << >>,
                    !.realTime = FALSE, !.inCatch = FALSE,
                    !.result = StreamResult("throw", "", FALSE, err)]]

\* videoStreamService.ts after aiService.generateResponse has settled in the
\* call c with record rec: startRealTimeStream or startDemoStream of a
\* startTutorStream, or the rest of generateTalkingResponse
VsAIResumes(c, rec, outcome) ==
    LET res == generateResponse(aiVariant, aiConfigured, outcome,
                                <<Message("user", rec.text)>>, "User", rec.tutor)
        demoVideo == getDemoVideo(demoVariant, rec.tutor)
    IN
    IF res.kind # "return"
    THEN /\ IF rec.op = "start" /\ ~rec.inCatch
            THEN streamCalls' = [streamCalls EXCEPT ![c] =
                     [rec EXCEPT !.pc = "await_ai", !.inCatch = TRUE,
                                 !.realTime = FALSE]]
            ELSE StreamCallThrows(c, rec, "")
         /\ UNCHANGED <<activeStreams, streamingSessions, streaming>>
    ELSE IF rec.op = "start" /\ rec.realTime
    THEN /\ streaming' = [isConnected |-> TRUE, sessionActive |-> TRUE]
         /\ streamingSessions' = [streamingSessions EXCEPT ![rec.sid] =
                                     Some(StreamingSessionId)]
         /\ activeStreams' = [activeStreams EXCEPT ![rec.sid] =
                 Some(Stream(Some(StreamingUrl(StreamingSessionId)),
                             Some(StreamingUrl(StreamingSessionId)), TRUE))]
         /\ StreamCallReturns(c, rec, StreamingUrl(StreamingSessionId), TRUE)
    ELSE IF rec.op = "start"
    THEN /\ activeStreams' = [activeStreams EXCEPT ![rec.sid] =
                 Some(Stream(Some(demoVideo.videoUrl), Some(demoVideo.audioUrl),
                             FALSE))]
         /\ StreamCallReturns(c, rec, demoVideo.videoUrl, FALSE)
         /\ UNCHANGED <<streamingSessions, streaming>>
    ELSE IF rec.realTime
    THEN /\ IF streaming.isConnected
            THEN StreamCallReturns(c, rec, StreamingUrl("undefined"), FALSE)
            ELSE StreamCallThrows(c, rec, ErrNotConnected)
         /\ UNCHANGED <<activeStreams, streamingSessions, streaming>>
    ELSE /\ StreamCallReturns(c, rec, demoVideo.videoUrl, FALSE)
         /\ UNCHANGED <<activeStreams, streamingSessions, streaming>>

\* a request calls startTutorStream(sessionId, ..., tutorName, ...)
VsStart(c, sid, tutor, text) ==
    /\ streamCalls[c].pc = "idle"
    /\ \A d \in StreamCallIds : d < c => streamCalls[d].pc # "idle"
    /\ streamLog' = [streamLog EXCEPT ![sid] = "started"]
    /\ LET rec == [IdleStreamCall EXCEPT !.op = "start", !.sid = sid,
                                          !.tutor = tutor]
           demoVideo == getDemoVideo(demoVariant, tutor)
       IN
       IF vsVariant = "part_001"
       THEN /\ streamConfigs' = [streamConfigs EXCEPT ![sid] = Some(tutor)]
            /\ IF AvServiceStatus(avKeys) = "active"
               THEN /\ streamCalls' = [streamCalls EXCEPT ![c] =
                                          [rec EXCEPT !.pc = "await_avatar"]]
                    /\ UNCHANGED activeStreams
               ELSE /\ activeStreams' = [activeStreams EXCEPT ![sid] =
                           Some(Stream(Some(demoVideo.videoUrl),
                                       Some(demoVideo.audioUrl), TRUE))]
                    /\ StreamCallReturns(c, rec, demoVideo.videoUrl, TRUE)
            /\ UNCHANGED <<streamingSessions, streaming>>
       ELSE /\ UNCHANGED streamConfigs
            /\ LET r == [rec EXCEPT !.text = text,
                                    !.realTime = isStreamActive(streaming)]
               IN IF aiConfigured
                  THEN /\ streamCalls' = [streamCalls EXCEPT ![c] =
                                             [r EXCEPT !.pc = "await_ai"]]
                       /\ UNCHANGED <<activeStreams, streamingSessions, streaming>>
                  ELSE VsAIResumes(c, r, "reply")
    /\ UNCHANGED <<disconnects, avVariant, avKeys, demoVariant, vsVariant, call,
                   envVars, sockVars, voiceVars, talkVars, sessVars, aiVars, authVars>>

\* a lookup that makes up a configuration for a session that has none
MutStreamConfigsGetDefault(configs, sid) ==
    IF configs[sid] = Absent THEN Some(NameJohn) ELSE configs[sid]

\* this.streamConfigs.get(sessionId): the configuration, or none
streamConfigsGet(configs, sid) == configs[sid]

\* a request calls generateTalkingResponse(sessionId, message) of part_001,
\* or generateTalkingResponse(sessionId, message, tutorName, ...) of
\* videoStreamService.ts
VsTalk(c, sid, tutor, text) ==
    /\ streamCalls[c].pc = "idle"
    /\ \A d \in StreamCallIds : d < c => streamCalls[d].pc # "idle"
    /\ LET rec == [IdleStreamCall EXCEPT !.op = "talk", !.sid = sid,
                                          !.begun = (streamLog[sid] = "started")]
       IN
       IF vsVariant = "part_001"
       THEN LET config == streamConfigsGet(streamConfigs, sid) IN
            /\ IF config = Absent
               THEN /\ StreamCallThrows(c, rec, ErrTalkingResponse)
                    /\ UNCHANGED activeStreams
               ELSE IF AvServiceStatus(avKeys) = "active"
               THEN /\ streamCalls' = [streamCalls EXCEPT ![c] =
                           [rec EXCEPT !.pc = "await_avatar", !.tutor = config[1]]]
                    /\ UNCHANGED activeStreams
               ELSE LET demoVideo == generateTalkingResponse(demoVariant, config[1],
                                                             Len(text))
                    IN /\ activeStreams' = [activeStreams EXCEPT ![sid] =
                              Some(Stream(Some(demoVideo.videoUrl),
                                          Some(demoVideo.audioUrl), TRUE))]
                       /\ StreamCallReturns(c, rec, demoVideo.videoUrl, TRUE)
            /\ UNCHANGED <<streamingSessions, streaming>>
       ELSE LET handle == streamingSessions[sid]
                r == [rec EXCEPT !.tutor = tutor, !.text = text,
                          !.realTime = (handle # Absent /\ HandleIsActive(handle[1]))]
            IN IF aiConfigured
               THEN /\ streamCalls' = [streamCalls EXCEPT ![c] =
                                          [r EXCEPT !.pc = "await_ai"]]
                    /\ UNCHANGED <<activeStreams, streamingSessions, streaming>>
               ELSE VsAIResumes(c, r, "reply")
    /\ UNCHANGED <<streamLog, disconnects, streamConfigs, avVariant, avKeys,
                   demoVariant, vsVariant, call, envVars, sockVars, voiceVars,
                   talkVars, sessVars, aiVars, authVars>>

\* part_001: the awaited avatarService.generateTalkingAvatar settles; the call
\* stores the stream under its session id and returns it
VsAvatarSettles(c, outcome) ==
    /\ streamCalls[c].pc = "await_avatar"
    /\ LET rec == streamCalls[c]
           videoUrl == AvatarVideoUrl(outcome, rec.tutor)
       IN /\ activeStreams' = [activeStreams EXCEPT ![rec.sid] =
                 Some(Stream(Some(videoUrl), Some(BellUrl), TRUE))]
          /\ StreamCallReturns(c, rec, videoUrl, TRUE)
    /\ UNCHANGED <<streamLog, disconnects, streamConfigs, streamingSessions,
                   streaming, avVariant, avKeys, demoVariant, vsVariant, call,
                   envVars, sockVars, voiceVars, talkVars, sessVars, aiVars, authVars>>

\* videoStreamService.ts: the awaited OpenAI request of generateResponse settles
VsAISettles(c, outcome) ==
    /\ streamCalls[c].pc = "await_ai"
    /\ VsAIResumes(c, streamCalls[c], outcome)
    /\ UNCHANGED <<streamLog, disconnects, streamConfigs, avVariant, avKeys,
                   demoVariant, vsVariant, call, envVars, sockVars, voiceVars,
                   talkVars, sessVars, aiVars, authVars>>

\* a request calls stopStream(sessionId)
VsStop(sid) ==
    /\ streamLog' = [streamLog EXCEPT ![sid] = "stopped"]
    /\ activeStreams' = [activeStreams EXCEPT ![sid] = Absent]
    /\ IF vsVariant = "part_001"
       THEN /\ streamConfigs' = [streamConfigs EXCEPT ![sid] = Absent]
            /\ UNCHANGED <<streamingSessions, streaming, disconnects>>
       ELSE LET handle == streamingSessions[sid] IN
            /\ IF handle # Absent /\ HandleIsActive(handle[1])
               THEN /\ streaming' = NoStreaming
                    /\ disconnects' = TRUE
               ELSE UNCHANGED <<streaming, disconnects>>
            /\ streamingSessions' = [streamingSessions EXCEPT ![sid] = Absent]
            /\ UNCHANGED streamConfigs
    /\ UNCHANGED <<streamCalls, avVariant, avKeys, demoVariant, vsVariant, call,
                   envVars, sockVars, voiceVars, talkVars, sessVars, aiVars, authVars>>

-----------------------------------------------------------------------------
(* The Socket.io server (part_004, part_005): rooms named by session ids and *)
(* the events relayed to them                                                *)

SockServers == {"part_004", "part_005"}
Sockets == {"k1", "k2", "k3"}
Rooms == {"S1", "S2"}

ClientEvents ==
    {"send-message", "voice-start", "voice-data", "voice-end", "avatar-start",
     "avatar-video-ready", "avatar-stream", "avatar-end"}

\* the event a handler emits for the event it handles
RelayedAs(ev) ==
    CASE ev = "send-message" -> "new-message"
      [] ev = "voice-start" -> "voice-started"
      [] ev = "voice-data" -> "voice-received"
      [] ev = "voice-end" -> "voice-ended"
      [] ev = "avatar-start" -> "avatar-started"
      [] ev = "avatar-video-ready" -> "avatar-video-available"
      [] ev = "avatar-stream" -> "avatar-stream-received"
      [] OTHER -> "avatar-ended"

\* the handlers a server registers: part_005 has the one for send-message only
Handles(server, ev) == ev = "send-message" \/ server = "part_004"

\* io.to(room).emit: every socket in the room
IoTo(joined, room) == {k \in DOMAIN joined : room \in joined[k]}

\* a broadcast that reaches its sender as well
MutBroadcastToSenderToo(joined, sender, room) == IoTo(joined, room)

\* socket.broadcast.to(room).emit: every socket in the room but the sender
BroadcastTo(joined, sender, room) == IoTo(joined, room) \ {sender}

NoEmit == [event |-> "none", room |-> "", sender |-> "", to |-> {}]

\* a client connects
SockConnect(k) ==
    /\ k \notin sockConnected
    /\ sockConnected' = sockConnected \cup {k}
    /\ UNCHANGED <<sockServer, sockJoined, sockLast, envVars, streamVars, voiceVars,
                   talkVars, sessVars, aiVars, authVars, avVars>>

\* 'join-session': socket.join(sessionId)
SockJoin(k, room) ==
    /\ k \in sockConnected
    /\ sockJoined' = [sockJoined EXCEPT ![k] = @ \cup {room}]
    /\ UNCHANGED <<sockServer, sockConnected, sockLast, envVars, streamVars,
                   voiceVars, talkVars, sessVars, aiVars, authVars, avVars>>

\* the socket k sends the event ev with data.sessionId = room: the handler
\* relays it, 'send-message' with io.to, the others with socket.broadcast.to
SockEvent(k, ev, room) ==
    /\ k \in sockConnected
    /\ Handles(sockServer, ev)
    /\ sockLast' = [event |-> RelayedAs(ev), room |-> room, sender |-> k,
                    to |-> IF ev = "send-message"
                           THEN IoTo(sockJoined, room)
                           ELSE BroadcastTo(sockJoined, k, room)]
    /\ UNCHANGED <<sockServer, sockConnected, sockJoined, envVars, streamVars,
                   voiceVars, talkVars, sessVars, aiVars, authVars, avVars>>

\* a client disconnects: Socket.io takes the socket out of its rooms
SockDisconnect(k) ==
    /\ k \in sockConnected
    /\ sockConnected' = sockConnected \ {k}
    /\ sockJoined' = [sockJoined EXCEPT ![k] = {}]
    /\ UNCHANGED <<sockServer, sockLast, envVars, streamVars, voiceVars, talkVars,
                   sessVars, aiVars, authVars, avVars>>

-----------------------------------------------------------------------------
(* Specifications: each runs one part of the server and leaves the others   *)
(* as they are at start-up                                                   *)

SessIdle ==
    /\ sessions = << >>
    /\ reqs = [r \in Reqs |-> IdleReq]
    /\ now = 0
    /\ issued = 0
    /\ last = NoResponse

AIIdle == aiCall = IdleAICall

AuthIdle ==
    /\ users = << >>
    /\ held = [e \in AuthClients |-> NoToken]
    /\ authDay = 0
    /\ authLast = NoAuthResponse
    /\ routed = NoRouted

VoiceIdle ==
    /\ tempFiles = << >>
    /\ voiceCalls = [c \in VoiceCallIds |-> IdleVoiceCall]
    /\ voiceNow = 0

TalkIdle == talk = NoTalk

StreamIdle ==
    /\ streamCalls = [c \in StreamCallIds |-> IdleStreamCall]
    /\ streamLog = [sid \in StreamIds |-> "never"]
    /\ disconnects = FALSE

SockIdle ==
    /\ sockConnected = {}
    /\ sockJoined = [k \in Sockets |-> {}]
    /\ sockLast = NoEmit

AvIdle ==
    /\ call = IdleCall
    /\ activeStreams = [sid \in StreamIds |-> Absent]
    /\ streamConfigs = [sid \in StreamIds |-> Absent]
    /\ streamingSessions = [sid \in StreamIds |-> Absent]
    /\ streaming = NoStreaming

\* the session routes, on a server that runs aiService.ts
Init ==
    /\ aiVariant = "aiService"
    /\ \E apiKey \in ApiKeys : aiConfigured = AIIsConfigured(aiVariant, apiKey)
    /\ SessIdle
    /\ AIIdle
    /\ jwtSecret = "unset" /\ authRoutes = "auth.ts" /\ AuthIdle
    /\ avVariant = "first" /\ demoVariant = "first" /\ vsVariant = "part_001"
    /\ avKeys = [elevenLabs |-> FALSE, did |-> FALSE, heygen |-> FALSE]
    /\ AvIdle
    /\ StreamIdle
    /\ sockServer = "part_004" /\ SockIdle
    /\ voiceConfigured = FALSE /\ VoiceIdle
    /\ TalkIdle

Next ==
    \/ \E r \in Reqs, u \in Users, subject \in Subjects : StartFind(r, u, subject)
    \/ \E r \in Reqs : StartInsert(r)
    \/ \E r \in Reqs : StartSave(r)
    \/ \E r \in Reqs, u \in Users, sid \in 0..(Len(sessions) + 1),
          text \in Texts \cup {<< >>} :
           MsgFind(r, u, sid, text)
    \/ \E r \in Reqs : MsgSave(r)
    \/ \E r \in Reqs, u \in Users : EndFind(r, u)
    \/ \E r \in Reqs : EndSave(r)

Spec == Init /\ [][Next]_vars

\* no request is between its arrival and its response
Quiet == \A r \in Reqs : reqs[r].pc \in {"idle", "done"}

\* the session routes under a client that sends a request only once the
\* request before it has been answered
NextSeq ==
    \/ \E r \in Reqs, u \in Users, subject \in Subjects :
           Quiet /\ StartFind(r, u, subject)
    \/ \E r \in Reqs : StartInsert(r)
    \/ \E r \in Reqs : StartSave(r)
    \/ \E r \in Reqs, u \in Users, sid \in 0..(Len(sessions) + 1),
          text \in Texts \cup {<< >>} :
           Quiet /\ MsgFind(r, u, sid, text)
    \/ \E r \in Reqs : MsgSave(r)
    \/ \E r \in Reqs, u \in Users : Quiet /\ EndFind(r, u)
    \/ \E r \in Reqs : EndSave(r)

SpecSeq == Init /\ [][NextSeq]_vars

\* callers of generateResponse, on every copy of the service and every key
InitAI ==
    /\ aiVariant \in AIVariants
    /\ \E apiKey \in ApiKeys : aiConfigured = AIIsConfigured(aiVariant, apiKey)
    /\ SessIdle
    /\ AIIdle
    /\ jwtSecret = "unset" /\ authRoutes = "auth.ts" /\ AuthIdle
    /\ avVariant = "first" /\ demoVariant = "first" /\ vsVariant = "part_001"
    /\ avKeys = [elevenLabs |-> FALSE, did |-> FALSE, heygen |-> FALSE]
    /\ AvIdle
    /\ StreamIdle
    /\ sockServer = "part_004" /\ SockIdle
    /\ voiceConfigured = FALSE /\ VoiceIdle
    /\ TalkIdle

NextAI ==
    \/ \E messages \in AIHistories, u \in Users : AICallStart(messages, u)
    \/ \E outcome \in OpenAIOutcomes : AIOpenAIAnswers(outcome)
    \/ AICallEnds

SpecAI == InitAI /\ [][NextAI]_vars

\* registration, login and authenticated requests, on every copy of the auth
\* routes, with JWT_SECRET set or not
InitAuth ==
    /\ aiVariant = "aiService" /\ aiConfigured = FALSE
    /\ SessIdle
    /\ AIIdle
    /\ jwtSecret \in JwtSecrets
    /\ authRoutes \in AuthRoutesVariants
    /\ AuthIdle
    /\ avVariant = "first" /\ demoVariant = "first" /\ vsVariant = "part_001"
    /\ avKeys = [elevenLabs |-> FALSE, did |-> FALSE, heygen |-> FALSE]
    /\ AvIdle
    /\ StreamIdle
    /\ sockServer = "part_004" /\ SockIdle
    /\ voiceConfigured = FALSE /\ VoiceIdle
    /\ TalkIdle

NextAuth ==
    \/ \E body \in RegisterBodies : Register(body)
    \/ \E body \in LoginBodies : Login(body)
    \/ \E email \in AuthClients, header \in {"held", "forged", "none"} :
          Authenticate(email, header)
    \/ AuthTick

SpecAuth == InitAuth /\ [][NextAuth]_vars

\* requests to POST /api/session/message, on a server where one client has
\* registered: the state Register leaves, on every copy of the auth routes,
\* with JWT_SECRET set or not
InitRoute ==
    /\ aiVariant = "aiService" /\ aiConfigured = FALSE
    /\ SessIdle
    /\ AIIdle
    /\ jwtSecret \in JwtSecrets
    /\ authRoutes \in AuthRoutesVariants
    /\ users = <<[name |-> <<"A", "n", "a">>, email |-> EmailAna,
                  password |-> HashPassword(PwSecret1),
                  language |-> "English", aiTutorName |-> "Sam"]>>
    /\ held = [e \in AuthClients |->
                  IF e = EmailAna
                  THEN Held(generateToken(authRoutes, jwtSecret, 1, 0), "register")
                  ELSE NoToken]
    /\ authDay = 0
    /\ authLast = AuthResponse("register", 201, EmailAna, 1)
    /\ routed = NoRouted
    /\ avVariant = "first" /\ demoVariant = "first" /\ vsVariant = "part_001"
    /\ avKeys = [elevenLabs |-> FALSE, did |-> FALSE, heygen |-> FALSE]
    /\ AvIdle
    /\ StreamIdle
    /\ sockServer = "part_004" /\ SockIdle
    /\ voiceConfigured = FALSE /\ VoiceIdle
    /\ TalkIdle

NextRoute ==
    \/ \E email \in AuthClients, header \in {"held", "forged", "none"},
          message \in {<< >>, TxtPlain}, sessionId \in {0, 1} :
           MessageRoute(email, header, message, sessionId)
    \/ AuthTick

SpecRoute == InitRoute /\ [][NextRoute]_vars

\* the avatar and video-stream services, on every copy of them and every set
\* of provider keys
InitAvatar ==
    /\ aiVariant = "aiService"
    /\ aiConfigured \in BOOLEAN
    /\ SessIdle
    /\ AIIdle
    /\ jwtSecret = "unset" /\ authRoutes = "auth.ts" /\ AuthIdle
    /\ avVariant \in AvVariants
    /\ demoVariant \in DemoVariants
    /\ vsVariant \in VSVariants
    /\ avKeys \in AvKeySets
    /\ AvIdle
    /\ StreamIdle
    /\ sockServer = "part_004" /\ SockIdle
    /\ voiceConfigured = FALSE /\ VoiceIdle
    /\ TalkIdle

NextAvatar ==
    \/ \E entry \in AvEntries, tutor \in AvTutorNames, sid \in StreamIds,
          text \in Texts :
           AvStart(entry, tutor, sid, text)
    \/ \E outcome \in {"ok", "error"} : AvSpeech(outcome)
    \/ \E resp \in PostResponses : AvPost(resp)
    \/ \E resp \in PollResponses : AvPoll(resp)
    \/ \E outcome \in OpenAIOutcomes : AvAI(outcome)
    \/ AvDone

SpecAvatar == InitAvatar /\ [][NextAvatar]_vars

\* overlapping VideoStreamService calls, for either copy of the service, with
\* the provider keys and the OpenAI key set or not
InitStream ==
    /\ aiVariant = "aiService"
    /\ aiConfigured \in BOOLEAN
    /\ SessIdle
    /\ AIIdle
    /\ jwtSecret = "unset" /\ authRoutes = "auth.ts" /\ AuthIdle
    /\ avVariant = "first"
    /\ demoVariant \in DemoVariants
    /\ vsVariant \in VSVariants
    /\ avKeys \in AvKeySets
    /\ AvIdle
    /\ StreamIdle
    /\ sockServer = "part_004" /\ SockIdle
    /\ voiceConfigured = FALSE /\ VoiceIdle
    /\ TalkIdle

NextStream ==
    \/ \E c \in StreamCallIds, sid \in StreamIds, tutor \in AvTutorNames,
          text \in Texts :
           VsStart(c, sid, tutor, text)
    \/ \E c \in StreamCallIds, sid \in StreamIds, tutor \in AvTutorNames,
          text \in Texts :
           VsTalk(c, sid, tutor, text)
    \/ \E c \in StreamCallIds, outcome \in AvatarOutcomes : VsAvatarSettles(c, outcome)
    \/ \E c \in StreamCallIds, outcome \in OpenAIOutcomes : VsAISettles(c, outcome)
    \/ \E sid \in StreamIds : VsStop(sid)

SpecStream == InitStream /\ [][NextStream]_vars

\* the Socket.io server of either copy of the server file
InitSocket ==
    /\ aiVariant = "aiService" /\ aiConfigured = FALSE
    /\ SessIdle
    /\ AIIdle
    /\ jwtSecret = "unset" /\ authRoutes = "auth.ts" /\ AuthIdle
    /\ avVariant = "first" /\ demoVariant = "first" /\ vsVariant = "part_001"
    /\ avKeys = [elevenLabs |-> FALSE, did |-> FALSE, heygen |-> FALSE]
    /\ AvIdle
    /\ StreamIdle
    /\ sockServer \in SockServers /\ SockIdle
    /\ voiceConfigured = FALSE /\ VoiceIdle
    /\ TalkIdle

NextSocket ==
    \/ \E k \in Sockets : SockConnect(k)
    \/ \E k \in Sockets, room \in Rooms : SockJoin(k, room)
    \/ \E k \in Sockets, ev \in ClientEvents, room \in Rooms : SockEvent(k, ev, room)
    \/ \E k \in Sockets : SockDisconnect(k)

SpecSocket == InitSocket /\ [][NextSocket]_vars

\* speechToText calls, with the OpenAI key set or not
InitVoice ==
    /\ aiVariant = "aiService" /\ aiConfigured = FALSE
    /\ SessIdle
    /\ AIIdle
    /\ jwtSecret = "unset" /\ authRoutes = "auth.ts" /\ AuthIdle
    /\ avVariant = "first" /\ demoVariant = "first" /\ vsVariant = "part_001"
    /\ avKeys = [elevenLabs |-> FALSE, did |-> FALSE, heygen |-> FALSE]
    /\ AvIdle
    /\ StreamIdle
    /\ sockServer = "part_004" /\ SockIdle
    /\ voiceConfigured \in BOOLEAN
    /\ VoiceIdle
    /\ TalkIdle

NextVoice ==
    \/ \E c \in VoiceCallIds, written \in WriteOutcomes : SpeechToTextStart(c, written)
    \/ \E c \in VoiceCallIds, outcome \in WhisperOutcomes : SpeechToTextSettles(c, outcome)
    \/ VoiceTick

SpecVoice == InitVoice /\ [][NextVoice]_vars

\* callers of generateTalkingResponse, on every copy of DemoVideoService
InitTalk ==
    /\ aiVariant = "aiService" /\ aiConfigured = FALSE
    /\ SessIdle
    /\ AIIdle
    /\ jwtSecret = "unset" /\ authRoutes = "auth.ts" /\ AuthIdle
    /\ avVariant = "first" /\ demoVariant \in DemoVariants /\ vsVariant = "part_001"
    /\ avKeys = [elevenLabs |-> FALSE, did |-> FALSE, heygen |-> FALSE]
    /\ AvIdle
    /\ StreamIdle
    /\ sockServer = "part_004" /\ SockIdle
    /\ voiceConfigured = FALSE /\ VoiceIdle
    /\ TalkIdle

NextTalk ==
    \E tutorName \in AvTutorNames, length \in 0..MaxMessageLength :
        TalkCall(tutorName, length)

SpecTalk == InitTalk /\ [][NextTalk]_vars

-----------------------------------------------------------------------------
(* Claims about the session routes *)

\* user u owns a persisted session whose status is 'active'
HasActive(u) ==
    \E id \in DOMAIN sessions :
        sessions[id].userId = u /\ sessions[id].status = "active"

ActiveOf(u) ==
    {id \in DOMAIN sessions : sessions[id].userId = u /\ sessions[id].status = "active"}

\* C1: a startSession request whose lookup runs while the user has a persisted
\* active session is answered 400, the request ends there, and no session is
\* created or changed by it.
C1_StartRejectedWhileActive ==
    [][\A r \in Reqs, u \in Users, subject \in Subjects :
          (StartFind(r, u, subject) /\ HasActive(u))
              => /\ last' = Response("start", u, 0, 0, 400)
                 /\ reqs'[r].pc = "done"
                 /\ sessions' = sessions]_vars

\* a start request has just been answered 400 and its user has an active session
C1_Witness ==
    /\ last.op = "start"
    /\ last.resp = 400
    /\ HasActive(last.user)
    /\ \A r \in Reqs : reqs[r].pc \in {"idle", "done"}

\* C2: in every reachable state each user owns at most one persisted session
\* whose status is 'active'.
C2_AtMostOneActivePerUser ==
    \A u \in Users : Cardinality(ActiveOf(u)) <= 1

\* C3: a successful postMessage makes the persisted message list exactly two
\* longer: the caller's user message, then the ai reply, appended at the end,
\* with the messages persisted before and every other session unchanged.
C3_MessageAppendsTwo ==
    [][\A r \in Reqs :
          (MsgSave(r) /\ last'.resp = 200)
              => LET id == reqs[r].docId
                     before == sessions[id].messages
                     after == sessions'[id].messages
                 IN /\ Len(after) = Len(before) + 2
                    /\ SubSeq(after, 1, Len(before)) = before
                    /\ after[Len(before) + 1].sender = "user"
                    /\ after[Len(before) + 1] = reqs[r].pushed[1]
                    /\ after[Len(before) + 2].sender = "ai"
                    /\ after[Len(before) + 2] = reqs[r].pushed[2]
                    /\ \A other \in DOMAIN sessions \ {id} :
                           sessions'[other] = sessions[other]
                    /\ DOMAIN sessions' = DOMAIN sessions]_vars

\* a second postMessage on one session has just succeeded
C3_Witness ==
    /\ last.op = "message"
    /\ last.resp = 200
    /\ Len(sessions[last.docId].messages) >= 5

\* d is Math.round(ms / 60000): the integer nearest to the minutes, halves up
IsRoundedMinutes(d, ms) ==
    /\ 2 * MsPerMinute * d <= 2 * ms + MsPerMinute
    /\ 2 * ms + MsPerMinute < 2 * MsPerMinute * (d + 1)

\* C4: a successful endSession persists status 'ended', the end time the handler
\* read from the clock and the rounded minutes between start and end; a
\* postMessage whose lookup runs once the session it names is ended is answered
\* 404 and changes nothing.
C4_EndThenMessageRejected ==
    [][/\ \A r \in Reqs :
             (EndSave(r) /\ last'.resp = 200)
                 => LET s == sessions'[reqs[r].docId] IN
                    /\ s.status = "ended"
                    /\ s.endTime = reqs[r].doc.endTime
                    /\ Len(s.endTime) = 1
                    /\ s.endTime[1] <= now
                    /\ Len(s.totalDuration) = 1
                    /\ IsRoundedMinutes(s.totalDuration[1], s.endTime[1] - s.startTime)
       /\ \A r \in Reqs, u \in Users, sid \in DOMAIN sessions, text \in Texts :
             (MsgFind(r, u, sid, text) /\ sessions[sid].status = "ended")
                 => /\ last' = Response("message", u, sid, 0, 404)
                    /\ reqs'[r].pc = "done"
                    /\ sessions' = sessions]_vars

\* a postMessage naming the caller's own session, ended after half a minute with
\* a duration of one minute, has just been answered 404
C4_Witness ==
    /\ last.op = "message"
    /\ last.resp = 404
    /\ last.sid \in DOMAIN sessions
    /\ sessions[last.sid].userId = last.user
    /\ sessions[last.sid].status = "ended"
    /\ sessions[last.sid].endTime = Some(sessions[last.sid].startTime + TickMs)
    /\ sessions[last.sid].totalDuration = Some(1)

\* C5: an endSession whose lookup runs while the user has no active session is
\* answered 404, the request ends there, and no persisted session changes; so
\* an already ended session keeps its status, endTime, totalDuration, messages.
C5_EndWithoutActiveRejected ==
    [][\A r \in Reqs, u \in Users :
          (EndFind(r, u) /\ ~HasActive(u))
              => /\ last' = Response("end", u, 0, 0, 404)
                 /\ reqs'[r].pc = "done"
                 /\ sessions' = sessions]_vars

\* an endSession of a user whose session is already ended has just been answered 404
C5_Witness ==
    /\ last.op = "end"
    /\ last.resp = 404
    /\ \E id \in DOMAIN sessions :
           sessions[id].userId = last.user /\ sessions[id].status = "ended"

-----------------------------------------------------------------------------
(* Claims about the avatar and video-stream services *)

LastAttempt(c) == c.tried[Len(c.tried)]

\* C6: with the keys of both providers set, generateAvatarVideo tries the first
\* provider of its order; if that attempt throws it tries the second one, and
\* then returns what the second one produced if it succeeded, and the demo
\* video of the tutor name if it failed too; it never throws.
C6_CascadeFallsThrough ==
    (/\ call.pc \in {"returned", "thrown"}
     /\ call.source \in {"did", "heygen", "demo"}
     /\ avKeys.did /\ avKeys.heygen)
        => LET A == ProviderOrder(avVariant)[1]
               B == ProviderOrder(avVariant)[2]
               tried == call.tried
           IN /\ call.result.kind = "return"
              /\ Len(tried) >= 1
              /\ tried[1].provider = A
              /\ tried[1].ok =>
                    /\ Len(tried) = 1
                    /\ call.source = A
                    /\ call.result.videoUrl = tried[1].url
              /\ ~tried[1].ok =>
                    /\ Len(tried) = 2
                    /\ tried[2].provider = B
                    /\ (tried[2].ok /\ tried[2].err = "") =>
                          /\ call.source = B
                          /\ call.result.videoUrl = tried[2].url
                          /\ tried[2].url \in {Some(ReportedUrl(B)), Absent}
                    /\ tried[2].err # "" =>
                          call.result.videoUrl =
                              Some(getDemoVideo(demoVariant, call.tutor).videoUrl)

\* the first provider threw, the second one gave its video, and that is returned
C6_Witness ==
    /\ call.pc = "returned"
    /\ avKeys.did /\ avKeys.heygen
    /\ Len(call.tried) = 2
    /\ ~call.tried[1].ok
    /\ call.tried[2].ok /\ call.tried[2].err = ""
    /\ call.source = ProviderOrder(avVariant)[2]
    /\ call.result.videoUrl = Some(ReportedUrl(ProviderOrder(avVariant)[2]))

\* C7: generateTalkingAvatar and startTutorStream (both copies) never throw to
\* the caller: whatever keys are set and however the provider requests fail
\* (request error, missing id, failed or timed out polling) they return a
\* result with an audioUrl and a videoUrl; the videoUrl is missing only if a
\* provider said its video was ready and gave no url for it.
C7_EntryPointsNeverThrow ==
    /\ call.pc # "thrown"
    /\ call.pc = "returned" =>
          /\ call.result.kind = "return"
          /\ call.result.audioUrl # Absent
          /\ call.result.videoUrl = Absent =>
                /\ call.tried # << >>
                /\ LastAttempt(call).ok
                /\ LastAttempt(call).sawTerminal
                /\ LastAttempt(call).err = ""

\* startTutorStream has returned the demo video after both providers threw
C7_Witness ==
    /\ call.pc = "returned"
    /\ call.entry = "startTutorStream"
    /\ Len(call.tried) = 2
    /\ ~call.tried[1].ok /\ ~call.tried[2].ok
    /\ call.tried[1].err = ErrNoId
    /\ call.tried[2].polled
    /\ call.result.videoUrl = Some(getDemoVideo(demoVariant, call.tutor).videoUrl)
    /\ call.result.audioUrl = Some(BellUrl)
    /\ activeStreams[call.sid] # Absent

\* C8 as stated: an attempt whose poll loop never saw an end state, and which
\* threw, threw the timeout error.
C8_NonTerminalRaisesTimeout ==
    \A i \in DOMAIN call.tried :
        LET e == call.tried[i] IN
        (e.polled /\ ~e.sawTerminal /\ ~e.ok) => e.err = ErrTimedOut

\* C8, amended: every iteration of a poll loop starts below the maximum of the
\* loop (30 for D-ID, 60 for HeyGen in the first copy, 30 in the second) and
\* either ends the loop or counts one attempt more, so the loop ends within
\* its maximum; a loop that ends without having seen an end state ends with an
\* error: the timeout at the maximum, or, in pollHeyGenVideoStatus, 'Video ID
\* not found or invalid' as soon as a status request fails with HTTP 404; in
\* generateDIDAvatar of the second copy a failed status request ends the loop
\* at once and every error is caught there, the demo video being returned.
C8_PollLoopsStop ==
    [][\A resp \in PollResponses :
          AvPoll(resp) =>
             LET max == maxAttempts(avVariant, call.provider)
                 catches == ProviderCatch(avVariant, call.provider) = "demo"
                 e == LastAttempt(call')
             IN /\ call.attempts < max
                /\ call'.pc = "poll" =>
                      (call'.attempts = call.attempts + 1 /\ call'.attempts < max)
                /\ (call'.pc # "poll" /\ ~call'.sawTerminal) =>
                      /\ call'.attempts <= max
                      /\ e.err # ""
                      /\ ~catches =>
                            /\ ~e.ok
                            /\ \/ e.err = ErrTimedOut /\ call'.attempts = max
                               \/ /\ avVariant = "first" /\ call.provider = "heygen"
                                  /\ resp = "not_found"
                                  /\ e.err = ErrNotFound
                      /\ catches =>
                            /\ e.ok
                            /\ e.url = Some(getDemoVideo(demoVariant, call.tutor).videoUrl)
                            /\ \/ e.err = ErrDIDTimeout /\ call'.attempts = max
                               \/ /\ resp \in {"request_error", "not_found"}
                                  /\ e.err = ErrRequest]_vars

\* pollHeyGenVideoStatus has thrown the timeout after 60 attempts in which no
\* end state was seen
C8_Witness ==
    /\ call.tried # << >>
    /\ avVariant = "first"
    /\ LastAttempt(call).provider = "heygen"
    /\ LastAttempt(call).polled
    /\ ~LastAttempt(call).sawTerminal
    /\ LastAttempt(call).err = ErrTimedOut
    /\ call.attempts = HeyGenMaxAttempts

-----------------------------------------------------------------------------
(* Claims about AIService *)

\* C9: generateResponse never throws; when the service is not configured, or
\* the OpenAI call fails, it returns exactly what generateMockResponse gives
\* for the same messages, user name and tutor name.
C9_GenerateResponseFallsBack ==
    /\ aiCall.pc # "thrown"
    /\ aiCall.pc = "returned" =>
          /\ aiCall.result.kind = "return"
          /\ (~aiConfigured \/ aiCall.outcome = "error") =>
                aiCall.result.value =
                    generateMockResponse(aiVariant, aiCall.messages,
                                         UserName(aiCall.user), TutorName(aiCall.user))

\* a configured service whose OpenAI call failed has answered a user message
\* that contains 'hi' with the canned greeting
C9_Witness ==
    /\ aiCall.pc = "returned"
    /\ aiConfigured
    /\ aiCall.outcome = "error"
    /\ Len(aiCall.messages) = 2
    /\ aiCall.messages[2] = Message("user", TxtThis)
    /\ aiCall.result.value = ReplyGreeting(UserName(aiCall.user))

-----------------------------------------------------------------------------
(* Claims about registration, login and authenticate *)

\* C10: a request that carries the token a client got from login, before the
\* token expires, passes authenticate as the account that logged in.
C10_LoginTokenAccepted ==
    (/\ authLast.op = "authenticate"
     /\ authLast.header = "held"
     /\ held[authLast.email] # NoToken
     /\ held[authLast.email][1].by = "login"
     /\ authDay < held[authLast.email][1].token.exp)
        => /\ authLast.code = 200
           /\ authLast.userId \in DOMAIN users
           /\ users[authLast.userId].email = authLast.email

-----------------------------------------------------------------------------
(* Claims about the session routes: start, lookup by id, overlapping requests *)

\* the opening lines generateResponse can give for an empty history
OpeningLines(u) ==
    {generateResponse(aiVariant, aiConfigured, outcome, << >>,
                      UserName(u), TutorName(u)).value : outcome \in OpenAIOutcomes}

\* C12: when a startSession sent without a subject is answered 201, the
\* persisted session has status 'active', subject 'General Tutoring' and
\* exactly one message, from 'ai', whose content is the opening line
\* generated from an empty history.
C12_StartLeavesOneGreeting ==
    [][\A r \in Reqs :
          (StartSave(r) /\ last'.resp = 201 /\ reqs[r].doc.subject = "General Tutoring")
              => LET s == sessions'[reqs[r].docId] IN
                 /\ s.status = "active"
                 /\ s.subject = "General Tutoring"
                 /\ Len(s.messages) = 1
                 /\ s.messages[1].sender = "ai"
                 /\ s.messages[1].content \in OpeningLines(reqs[r].user)]_vars

\* C14: a postMessage whose sessionId names a session of another user, or no
\* session at all, is answered 404, the request ends there, and no persisted
\* session changes.
C14_MessageNeedsOwnSession ==
    [][\A r \in Reqs, u \in Users, sid \in 1..(Len(sessions) + 1), text \in Texts :
          (MsgFind(r, u, sid, text)
             /\ (sid \notin DOMAIN sessions \/ sessions[sid].userId # u))
              => /\ last' = Response("message", u, sid, 0, 404)
                 /\ reqs'[r].pc = "done"
                 /\ sessions' = sessions]_vars

\* a postMessage naming an active session of another user has just been
\* answered 404
C14_Witness ==
    /\ last.op = "message"
    /\ last.resp = 404
    /\ last.sid \in DOMAIN sessions
    /\ sessions[last.sid].userId # last.user
    /\ sessions[last.sid].status = "active"
    /\ Len(sessions[last.sid].messages) = 1

\* request r is a postMessage about to persist, and the stored list is no
\* longer the one it read: something was persisted to the session since
ReadIsStale(r) ==
    /\ reqs[r].pc = "msg_save"
    /\ sessions[reqs[r].docId].messages #
           SubSeq(reqs[r].doc.messages, 1, Len(reqs[r].doc.messages) - 2)

\* C16, as stated: the final persist of a postMessage is last-write-wins on
\* the document, so that the persisted list becomes the saving call's own
\* copy and the messages another call persisted since the read are gone.
C16_LastWriteWins ==
    [][\A r \in Reqs :
          (MsgSave(r) /\ last'.resp = 200)
              => sessions'[reqs[r].docId].messages = reqs[r].doc.messages]_vars

\* C16, amended: when a postMessage persists after another request has
\* persisted to the same session since its read, its two messages are
\* appended to the list the store holds; what was persisted in between is
\* kept in front of them, and the list is longer than the saving call's copy.
C16_OverlappingSavesKeepBoth ==
    [][\A r \in Reqs :
          (MsgSave(r) /\ last'.resp = 200 /\ ReadIsStale(r))
              => LET id == reqs[r].docId
                     before == sessions[id].messages
                     after == sessions'[id].messages
                 IN /\ after = before \o reqs[r].pushed
                    /\ Len(after) > Len(reqs[r].doc.messages)
                    /\ after # reqs[r].doc.messages]_vars

\* two postMessage calls read the same history of one session; one has
\* persisted and was answered 200, the other is about to persist
C16_Witness ==
    /\ last.op = "message"
    /\ last.resp = 200
    /\ \E r \in Reqs :
          /\ ReadIsStale(r)
          /\ reqs[r].docId = last.docId
          /\ Len(sessions[last.docId].messages) = Len(reqs[r].doc.messages)
          /\ SubSeq(sessions[last.docId].messages, 1, Len(reqs[r].doc.messages) - 2)
                 = SubSeq(reqs[r].doc.messages, 1, Len(reqs[r].doc.messages) - 2)
          /\ sessions[last.docId].messages[Len(reqs[r].doc.messages) - 1].sender = "user"

\* C17: a startSession that has passed its lookup is not stopped by a session
\* another request of the user persists meanwhile: its insert adds one more
\* active session of the user, whatever the user already has, and it is
\* answered 201 unless the store fails (500), never 400.
C17_ConcurrentStartsBothCreate ==
    [][\A r \in Reqs :
          /\ (StartInsert(r) /\ sessions' # sessions)
                => /\ sessions' = Append(sessions, reqs[r].doc)
                   /\ reqs[r].doc.userId = reqs[r].user
                   /\ reqs[r].doc.status = "active"
                   /\ Cardinality(ActiveOf(reqs[r].user))'
                          = Cardinality(ActiveOf(reqs[r].user)) + 1
          /\ (reqs[r].pc \in {"start_insert", "start_save"} /\ reqs'[r].pc = "done")
                => last'.resp \in {201, 500}
          /\ (StartSave(r) /\ last'.resp = 201)
                => sessions'[reqs[r].docId].status = sessions[reqs[r].docId].status]_vars

\* two start requests of one user have both been answered 201 and the user
\* has two persisted active sessions, each with its greeting
C17_Witness ==
    /\ last.op = "start"
    /\ last.resp = 201
    /\ Cardinality(ActiveOf(last.user)) = 2
    /\ \A id \in ActiveOf(last.user) : Len(sessions[id].messages) = 1
    /\ \A r \in Reqs : reqs[r].pc \in {"idle", "done"}

\* C18: the only change ever made to the status of a persisted session is
\* from 'active' to 'ended'; a session is created 'active'; a postMessage
\* leaves the status as it is; no session is ever 'paused'.
C18_StatusOnlyActiveToEnded ==
    [][/\ DOMAIN sessions \subseteq DOMAIN sessions'
       /\ \A id \in DOMAIN sessions :
             /\ sessions'[id].status # sessions[id].status
                   => (sessions[id].status = "active" /\ sessions'[id].status = "ended")
             /\ (\E r \in Reqs : MsgSave(r))
                   => sessions'[id].status = sessions[id].status
       /\ \A id \in DOMAIN sessions' :
             /\ sessions'[id].status \in {"active", "ended"}
             /\ id \notin DOMAIN sessions => sessions'[id].status = "active"]_vars

\* a postMessage that read the session before it was ended has persisted
\* after the end, and the session is still 'ended'
C18_Witness ==
    /\ last.op = "message"
    /\ last.resp = 200
    /\ sessions[last.docId].status = "ended"

\* C19: once a session is persisted as 'ended', its persisted messages,
\* endTime, totalDuration and status never change.
C19_EndedIsImmutable ==
    [][\A id \in DOMAIN sessions :
          sessions[id].status = "ended"
              => /\ sessions'[id].status = "ended"
                 /\ sessions'[id].messages = sessions[id].messages
                 /\ sessions'[id].endTime = sessions[id].endTime
                 /\ sessions'[id].totalDuration = sessions[id].totalDuration]_vars

\* in every persisted list a user message is directly followed by an ai message
UserMessagesHaveReplies ==
    \A id \in DOMAIN sessions :
        \A i \in 1..Len(sessions[id].messages) :
            sessions[id].messages[i].sender = "user"
                => /\ i < Len(sessions[id].messages)
                   /\ sessions[id].messages[i + 1].sender = "ai"

\* C20: in a postMessage the user message is appended to the history read,
\* the text generator is given that history with the user message last, its
\* reply is appended after the user message, nothing is persisted until both
\* are appended, and one write persists both; no persisted list ever holds a
\* user message without the reply after it.
C20_MessageStepsInOrder ==
    [][/\ \A r \in Reqs, u \in Users, sid \in DOMAIN sessions, text \in Texts :
             (MsgFind(r, u, sid, text) /\ reqs'[r].pc = "msg_save")
                 => LET userMessage == Message("user", text)
                        history == Append(sessions[sid].messages, userMessage)
                        pushed == reqs'[r].pushed
                    IN /\ Len(pushed) = 2
                       /\ pushed[1] = userMessage
                       /\ pushed[2].sender = "ai"
                       /\ \E outcome \in OpenAIOutcomes :
                             pushed[2].content =
                                 generateResponse(aiVariant, aiConfigured, outcome,
                                                  history, UserName(u), TutorName(u)).value
                       /\ reqs'[r].doc.messages = Append(history, pushed[2])
                       /\ sessions' = sessions
       /\ \A r \in Reqs :
             MsgSave(r)
                 => \/ sessions' = sessions
                    \/ /\ sessions'[reqs[r].docId].messages =
                              sessions[reqs[r].docId].messages \o reqs[r].pushed
                       /\ reqs'[r].pc = "done"
       /\ UserMessagesHaveReplies']_vars

\* a postMessage of 'Hello' to a server without an OpenAI key has persisted the
\* user message and, after it, the canned greeting the generator gives for a
\* history that ends with it
C20_Witness ==
    /\ last.op = "message"
    /\ last.resp = 200
    /\ ~aiConfigured
    /\ LET m == sessions[last.docId].messages IN
       /\ Len(m) >= 3
       /\ m[Len(m) - 1] = Message("user", TxtHello)
       /\ m[Len(m)] = Message("ai", ReplyGreeting(UserName(last.user)))

-----------------------------------------------------------------------------
(* Claims about request validation *)

\* C15: a POST /api/session/message of a signed-in client that lacks message
\* or sessionId is answered 400 and no store call was made for it before.
C15_InvalidRejectedBeforeAnyCall ==
    (/\ routed.stage \in {"validators", "handler"}
     /\ ~MessageValid(routed.message, routed.sessionId))
        => /\ routed.code = 400
           /\ routed.calls = << >>

-----------------------------------------------------------------------------
(* Claims about speechToText *)

\* C11: once a speechToText call has returned or thrown, the temporary file
\* that call wrote no longer exists.
C11_TempFileDeleted ==
    \A c \in VoiceCallIds :
        (voiceCalls[c].pc \in {"returned", "thrown"} /\ voiceCalls[c].tempFile # Absent)
            => ~(/\ voiceCalls[c].tempFile[1] \in DOMAIN tempFiles
                 /\ tempFiles[voiceCalls[c].tempFile[1]] = c)

-----------------------------------------------------------------------------
(* Claims about the demo talking response *)

\* C13: the duration of generateTalkingResponse is an integer from 3 to 30:
\* 3 for a message of up to 30 characters, 30 for one of more than 290, and
\* in between the least number of seconds d with length <= 10 * d; so 3 for 2
\* characters, 10 for 100 and 30 for 300.
C13_DurationClamped ==
    talk.called =>
        LET len == talk.length
            d == talk.video.duration
        IN /\ d \in 3..30
           /\ len <= 30 => d = 3
           /\ len > 290 => d = 30
           /\ (len > 30 /\ len <= 290) => (10 * (d - 1) < len /\ len <= 10 * d)
           /\ len = 2 => d = 3
           /\ len = 100 => d = 10
           /\ len = 300 => d = 30

\* a message of 300 characters has been given the longest duration
C13_Witness ==
    /\ talk.called
    /\ talk.length = 300
    /\ talk.video.duration = 30


-----------------------------------------------------------------------------
(* Claims about the poll loops and the provider order *)

\* C21: when a status request answers with the failure state of the provider
\* (D-ID 'error', HeyGen 'failed') the poll loop ends at once with an error and
\* no further status request is sent; when it answers 'done' / 'completed'
\* with the video url the loop returns that url; on a state that is not an end
\* state the loop goes on polling (or ends with the timeout at its maximum).
C21_TerminalFailureRaisesAtOnce ==
    [][\A resp \in PollResponses :
          AvPoll(resp) =>
             /\ resp = "failed" =>
                   /\ call'.pc # "poll"
                   /\ LastAttempt(call').err # ""
             /\ resp = "done_url" =>
                   /\ call'.pc = "returned"
                   /\ call'.result.videoUrl = Some(ReportedUrl(call.provider))
             /\ resp = "pending" =>
                   \/ call'.pc = "poll"
                   \/ call'.attempts = maxAttempts(avVariant, call.provider)]_vars


\* the attempt e of a provider ended in failure: the provider function threw,
\* or caught its error and returned the demo video in place of its own
AttemptFailed(e) == ~e.ok \/ e.err # ""

\* generateAvatarVideo follows the order: a provider is tried only with its key
\* set and after every provider before it in the order has failed or has no
\* key, nothing is tried after a provider has returned, and the demo video is
\* returned only after every provider has failed or has no key
TriedInOrder(order) ==
    LET tried == call.tried
        failedBefore(p, n) ==
            \A j \in 1..(IndexOf(order, p) - 1) :
                \/ ~HasKey(avKeys, order[j])
                \/ \E k \in 1..n : tried[k].provider = order[j] /\ AttemptFailed(tried[k])
    IN /\ \A i \in DOMAIN tried :
             /\ HasKey(avKeys, tried[i].provider)
             /\ failedBefore(tried[i].provider, i - 1)
             /\ tried[i].ok => (i = Len(tried) /\ call.pc = "returned")
       /\ call.pc \in {"post", "poll"} =>
             /\ HasKey(avKeys, call.provider)
             /\ failedBefore(call.provider, Len(tried))
             /\ \A i \in DOMAIN tried : ~tried[i].ok
       /\ (call.pc = "returned" /\ call.source = "demo") =>
             \A j \in DOMAIN order :
                 \/ ~HasKey(avKeys, order[j])
                 \/ \E k \in DOMAIN tried :
                        tried[k].provider = order[j] /\ AttemptFailed(tried[k])

\* C22 as stated: in generateAvatarVideo the providers are tried in the order
\* HeyGen, D-ID, demo video: D-ID only after HeyGen has failed or has no key,
\* the demo video only after both have failed or have no key.
C22_HeyGenThenDID == TriedInOrder(<<"heygen", "did">>)

\* C22, amended: generateAvatarVideo tries the providers in the fixed order of
\* its copy, stopping at the first success: D-ID, then HeyGen, then the demo
\* video in the first copy of avatarService.ts; HeyGen, then D-ID, then the
\* demo video in the second copy. The second provider of the order is tried
\* only after the first has failed or has no key, and the demo video is
\* returned only after both have failed or have no key.
C22_ProvidersInOrderOfCopy == TriedInOrder(ProviderOrder(avVariant))

\* first copy, both keys set: D-ID was tried first and threw, HeyGen was tried
\* next and threw, and the demo video is returned
C22_Witness ==
    /\ avVariant = "first"
    /\ avKeys.did /\ avKeys.heygen
    /\ call.pc = "returned"
    /\ call.source = "demo"
    /\ Len(call.tried) = 2
    /\ call.tried[1].provider = "did" /\ ~call.tried[1].ok
    /\ call.tried[2].provider = "heygen" /\ ~call.tried[2].ok


-----------------------------------------------------------------------------
(* Claims about VideoStreamService under overlapping requests *)

\* C23: once stopStream(sessionId) has run and no startTutorStream for the
\* session id has been issued since, the service holds nothing for the session
\* id: no entry of activeStreams (getStreamStatus gives null), of streamConfigs
\* or of streamingSessions; also when a startTutorStream or
\* generateTalkingResponse for it was suspended on a provider at the time
\* stopStream ran.
C23_StoppedLeavesNoStream ==
    \A sid \in StreamIds :
        streamLog[sid] = "stopped" =>
            /\ activeStreams[sid] = Absent
            /\ streamConfigs[sid] = Absent
            /\ streamingSessions[sid] = Absent


StreamingUrls == {StreamingUrl(StreamingSessionId), StreamingUrl("undefined")}

\* C29: in videoStreamService.ts, whatever startTutorStream,
\* generateTalkingResponse and stopStream calls are made and however they
\* overlap, the real-time path is never taken: no call takes the real-time
\* branch, every stream returned or stored has isStreaming = false and a url
\* that does not start with 'streaming://', streamingSessions stays empty, the
\* streaming service stays unconnected and stopStream never calls
\* disconnectStream.
C29_RealTimePathNeverTaken ==
    vsVariant = "videoStreamService" =>
        /\ \A c \in StreamCallIds :
              /\ ~streamCalls[c].realTime
              /\ streamCalls[c].pc = "returned" =>
                    /\ ~streamCalls[c].result.live
                    /\ streamCalls[c].result.videoUrl \notin StreamingUrls
        /\ \A sid \in StreamIds :
              /\ streamingSessions[sid] = Absent
              /\ activeStreams[sid] # Absent =>
                    /\ ~activeStreams[sid][1].live
                    /\ activeStreams[sid][1].videoUrl[1] \notin StreamingUrls
        /\ streaming = NoStreaming
        /\ ~disconnects

\* a startTutorStream and a generateTalkingResponse have returned and
\* stopStream has run since and removed the stream
C29_Witness ==
    /\ vsVariant = "videoStreamService"
    /\ streamCalls[1].op = "start" /\ streamCalls[1].pc = "returned"
    /\ streamCalls[2].op = "talk" /\ streamCalls[2].pc = "returned"
    /\ \E sid \in StreamIds :
           streamLog[sid] = "stopped" /\ activeStreams[sid] = Absent

\* C30: in part_001, a generateTalkingResponse(sessionId, message) call goes
\* on (and then returns a stream) exactly if, when it is made, a
\* startTutorStream for the session id has begun and no stopStream for it has
\* run since; otherwise it throws 'Failed to generate talking response' at
\* once and leaves activeStreams and streamConfigs as they were.
C30_TalkNeedsStartedStream ==
    /\ [](vsVariant = "part_001" =>
             \A c \in StreamCallIds :
                 streamCalls[c].op = "talk" =>
                     /\ streamCalls[c].begun =>
                           streamCalls[c].pc \in {"await_avatar", "returned"}
                     /\ ~streamCalls[c].begun =>
                           /\ streamCalls[c].pc = "thrown"
                           /\ streamCalls[c].result.err = ErrTalkingResponse)
    /\ [][\A c \in StreamCallIds :
             (vsVariant = "part_001" /\ streamCalls[c].pc = "idle"
              /\ streamCalls'[c].pc = "thrown")
                 => UNCHANGED <<activeStreams, streamConfigs>>]_vars

\* the stream of the session was started and stopped; a call made after the
\* stop has failed, and a call made before it has returned its stream
C30_Witness ==
    /\ vsVariant = "part_001"
    /\ \E c, d \in StreamCallIds :
           /\ streamCalls[c].op = "talk" /\ streamCalls[c].begun
           /\ streamCalls[c].pc = "returned"
           /\ streamCalls[d].op = "talk" /\ ~streamCalls[d].begun
           /\ streamCalls[d].pc = "thrown"
           /\ streamLog[streamCalls[d].sid] = "stopped"


-----------------------------------------------------------------------------
(* Claims about the Socket.io rooms *)

\* C24 as stated: every event relayed for a session (new-message, and the
\* voice and avatar events) goes to all the sockets that have joined the room
\* of the session and to no other socket.
C24_RelayedToAllJoined ==
    [][\A k \in Sockets, ev \in ClientEvents, room \in Rooms :
          SockEvent(k, ev, room) =>
             sockLast'.to = {j \in Sockets : room \in sockJoined[j]}]_vars

\* C24, amended: new-message goes to all the sockets that have joined the room
\* of the session, the sender included if it has joined; every voice and
\* avatar event goes to all the sockets that have joined the room except the
\* socket that sent it; no event goes to a socket that has not joined the
\* room.
C24_RelayedToRoomButSender ==
    [][\A k \in Sockets, ev \in ClientEvents, room \in Rooms :
          SockEvent(k, ev, room) =>
             /\ sockLast'.event = RelayedAs(ev)
             /\ sockLast'.to =
                   {j \in Sockets : /\ room \in sockJoined[j]
                                    /\ (ev = "send-message" \/ j # k)}]_vars

\* a socket that has joined the room sent voice-start: the others in the room
\* got voice-started, the sender did not
C24_Witness ==
    /\ sockLast.event = "voice-started"
    /\ sockLast.room \in sockJoined[sockLast.sender]
    /\ sockLast.to # {}
    /\ sockLast.sender \notin sockLast.to
    /\ \E j \in Sockets : sockLast.room \notin sockJoined[j]


-----------------------------------------------------------------------------
(* Claims about the canned replies *)

\* the keywords in the order of the claim, each with the reply it selects
FiveKeywordRules(userName) ==
    << [keys |-> {KwHello, KwHi}, reply |-> ReplyGreeting(userName)],
       [keys |-> {KwMath}, reply |-> ReplyMath(userName)],
       [keys |-> {KwScience}, reply |-> ReplyScience(userName)],
       [keys |-> {KwThank}, reply |-> ReplyThank(userName)],
       [keys |-> {KwHelp}, reply |-> ReplyHelp(userName)] >>

\* the two keywords that part_003 looks for after those
ExtraKeywordRules(userName) ==
    << [keys |-> {KwLogisticRegression}, reply |-> ReplyLogistic(userName)],
       [keys |-> {KwExample}, reply |-> ReplyExample(userName)] >>

\* the reply selected by the first rule one of whose keywords occurs in the
\* lower-cased last message, the default reply if there is none, and the
\* opening greeting if there is no last message of the user
FirstKeywordReply(rules, messages, userName, aiTutorName) ==
    IF messages = << >> \/ messages[Len(messages)].sender = "ai"
    THEN ReplyOpening(userName, aiTutorName)
    ELSE LET text == ToLowerCase(messages[Len(messages)].content)
             hits == {i \in DOMAIN rules : \E k \in rules[i].keys : Includes(text, k)}
         IN IF hits = {}
            THEN ReplyDefault(userName)
            ELSE rules[CHOOSE i \in hits : \A j \in hits : i <= j].reply

\* the call made last was answered by a service that is not configured
MockAnswered == aiCall.pc \in {"returned", "thrown"} /\ ~aiConfigured

\* C25 as stated: with OpenAI not configured the reply is the opening greeting
\* for an empty history or one that ends with an 'ai' message, and else the
\* reply of the first of hello/hi, math, science, thank, help that occurs in
\* the lower-cased last message, else the default reply; never an error.
C25_FiveKeywordsElseDefault ==
    MockAnswered =>
        aiCall.result =
            Returned(FirstKeywordReply(FiveKeywordRules(UserName(aiCall.user)),
                                       aiCall.messages, UserName(aiCall.user),
                                       TutorName(aiCall.user)))

\* C25, amended: with OpenAI not configured the reply is a function of the
\* history, the user name and the tutor name, and never an error: the opening
\* greeting for an empty history or one that ends with an 'ai' message, and
\* else the reply of the first keyword that occurs in the lower-cased last
\* message, in the order hello/hi, math, science, thank, help, and in part_003
\* after those 'logistic regression', example; the default reply if none
\* occurs. A last message 'Hello' yields the canned greeting.
C25_FirstKeywordOfCopy ==
    MockAnswered =>
        LET userName == UserName(aiCall.user)
            rules == IF aiVariant = "part_003"
                     THEN FiveKeywordRules(userName) \o ExtraKeywordRules(userName)
                     ELSE FiveKeywordRules(userName)
        IN /\ aiCall.result =
                  Returned(FirstKeywordReply(rules, aiCall.messages, userName,
                                             TutorName(aiCall.user)))
           /\ (/\ aiCall.messages # << >>
               /\ aiCall.messages[Len(aiCall.messages)] = Message("user", TxtHello))
                 => aiCall.result.value = ReplyGreeting(userName)

\* part_003, not configured, has answered 'help math' with the mathematics
\* reply: math comes before help in the order
C25_Witness ==
    /\ MockAnswered
    /\ aiVariant = "part_003"
    /\ aiCall.messages # << >>
    /\ aiCall.messages[Len(aiCall.messages)] = Message("user", TxtHelpMath)
    /\ aiCall.result.value = ReplyMath(UserName(aiCall.user))


-----------------------------------------------------------------------------
(* Claims about the session routes: failed starts, the fields of an ended    *)
(* session, the message list under requests that do not overlap              *)

\* C26: a startSession request that is answered with an error (400 or 500,
\* a failure of either save included) leaves no new session persisted: the
\* collection has no document more than before the step that answered, and
\* the document the request built is not in it.
C26_FailedStartLeavesNothing ==
    [][\A r \in Reqs :
          (/\ StartInsert(r) \/ StartSave(r)
           /\ reqs'[r].pc = "done"
           /\ last'.resp \in {400, 500})
              => /\ Len(sessions') = Len(sessions)
                 /\ reqs[r].docId \notin DOMAIN sessions']_vars

\* C27: in every persisted state a session has status 'ended' exactly if its
\* endTime is set; an ended session has totalDuration set to
\* Math.round((endTime - startTime) / 60000), which is >= 0; an active session
\* has neither endTime nor totalDuration.
C27_EndedFieldsConsistent ==
    \A id \in DOMAIN sessions :
        LET d == sessions[id] IN
        /\ d.status \in {"active", "ended"}
        /\ d.status = "ended" <=> d.endTime # Absent
        /\ d.status = "ended" =>
              /\ d.totalDuration # Absent
              /\ d.totalDuration[1] >= 0
              /\ IsRoundedMinutes(d.totalDuration[1], d.endTime[1] - d.startTime)
        /\ d.status = "active" => d.totalDuration = Absent

\* a session that was ended half a minute after it began is persisted with
\* its end time and a duration of one minute, next to an active one
C27_Witness ==
    /\ \E id \in DOMAIN sessions :
           /\ sessions[id].status = "ended"
           /\ sessions[id].endTime = Some(sessions[id].startTime + TickMs)
           /\ sessions[id].totalDuration = Some(1)
    /\ \E id \in DOMAIN sessions : sessions[id].status = "active"

\* the senders alternate ai, user, ..., ai: an odd number of messages
OddAlternating(m) ==
    /\ Len(m) % 2 = 1
    /\ \A i \in DOMAIN m : m[i].sender = IF i % 2 = 1 THEN "ai" ELSE "user"

\* C28: when requests do not overlap, a startSession that succeeds leaves the
\* list of its session with the one 'ai' greeting; every postMessage that
\* succeeds appends a 'user' and an 'ai' message to the list of its session,
\* and one whose save fails leaves every persisted list as it was; so between
\* requests the list of a session whose startSession succeeded (one that
\* begins with the greeting) has odd length 2k+1 after k successful
\* postMessage calls, its senders alternating ai, user, ..., ai.
C28_SequentialListOddAlternating ==
    /\ [](Quiet =>
            \A id \in DOMAIN sessions :
                LET m == sessions[id].messages IN
                (m # << >> /\ m[1].sender = "ai") => OddAlternating(m))
    /\ [][\A r \in Reqs :
             /\ (StartSave(r) /\ last'.resp = 201) =>
                   /\ Len(sessions'[reqs[r].docId].messages) = 1
                   /\ sessions'[reqs[r].docId].messages[1].sender = "ai"
             /\ (MsgSave(r) /\ last'.resp = 200) =>
                   LET old == sessions[reqs[r].docId].messages
                       new == sessions'[reqs[r].docId].messages
                   IN /\ Len(new) = Len(old) + 2
                      /\ SubSeq(new, 1, Len(old)) = old
                      /\ new[Len(old) + 1].sender = "user"
                      /\ new[Len(old) + 2].sender = "ai"
                      /\ (old # << >> /\ old[1].sender = "ai") =>
                            (OddAlternating(old) /\ OddAlternating(new))
             /\ (MsgSave(r) /\ last'.resp = 500) => sessions' = sessions]_vars

\* between requests: a session was started and two messages were posted to
\* it, one after the other; its list has 2 * 2 + 1 messages
C28_Witness ==
    /\ Quiet
    /\ issued = 3
    /\ \E id \in DOMAIN sessions :
           /\ Len(sessions[id].messages) = 5
           /\ OddAlternating(sessions[id].messages)

====
